---- MODULE Spec2Model ----
(***************************************************************************)
(* Model of the Mison structural index builder and of the index-driven     *)
(* query evaluator (crate `mison`).                                        *)
(*                                                                         *)
(* A u64 is modelled as the set of its set bit positions (a subset of      *)
(* 0..63, bit 0 = least significant); a record is a sequence of byte       *)
(* values; positions in a record are 0-based as in the source.             *)
(***************************************************************************)
EXTENDS Integers, Sequences, FiniteSets, TLC

VARIABLES
    backend,      \* the Backend the IndexBuilder was constructed with
    level,        \* IndexBuilder.level
    record,       \* the record handed to build
    bitmaps,      \* Inner.bitmaps
    b_colon,      \* Inner.b_colon
    b_comma,      \* Inner.b_comma
    raw,          \* history: the bitmaps as pass 1 left them
    stack,        \* history: the pass-4 stack when pass 4 returned
    pc,           \* position inside build and inside QueryParser::parse
    tree,         \* the QueryTree
    results,      \* the result vector of parse
    doc,          \* history: the JSON document the record was written from
    inner_borrow, \* the borrow flag of IndexBuilder.inner (a RefCell): -1 while
                  \* build holds borrow_mut, else the number of live Ref, one
                  \* in every StructuralIndex that is alive
    before,       \* history: the records of the earlier build calls on this
                  \* builder with their outcomes
    query,        \* the last query made of the tree or of the index by the
                  \* caller, and what it returned
    pattern_trees,  \* QueryParser.pattern_trees, one PatternTree for every
                    \* node of the QueryTree
    save_patterns,  \* QueryParser.save_patterns
    allow_fallback, \* QueryParser.allow_fallback
    appended,     \* history: for every PatternTree, the patterns handed to
                  \* append in the order of the calls
    overflow_checks \* the build of the crate: TRUE when integer arithmetic
                    \* is compiled with overflow checks (the default of the
                    \* debug profile), FALSE when it wraps (release)

vars == <<backend, level, record, bitmaps, b_colon, b_comma, raw, stack, pc,
          tree, results, doc, inner_borrow, before, query,
          pattern_trees, save_patterns, allow_fallback, appended, overflow_checks>>

----------------------------------------------------------------------------
(* Bounds of the model                                                     *)

MaxLen == 3
MaxPre == 2
MaxPost == 1
MaxLevel == 2
MaxPaths == 2
MaxMembers == 2
MaxBuilds == 3
MaxDepth == 3
MaxDeepLen == 7
MaxAppends == 3
MaxPatternLen == 2

----------------------------------------------------------------------------
(* Program constants                                                       *)

ChunkBits == 64
Backslash == 92
Quote == 34
Colon == 58
Comma == 44
LeftBrace == 123
RightBrace == 125
LeftBracket == 91
RightBracket == 93
Space == 32
Tab == 9
LineFeed == 10
CarriageReturn == 13
Dollar == 36
Dot == 46
LetterA == 97
LetterB == 98

Word == 0 .. (ChunkBits - 1)

\* s[i] for a 0-based index i
At(s, i) == s[i + 1]

----------------------------------------------------------------------------
(* u64 arithmetic on bit sets                                              *)

\* x is a u64 (evaluating it also makes TLC compute x before it is passed on)
IsU64(x) == x \subseteq Word

\* the same set, enumerated (TLC then holds the value, not the expression)
U64(x) == {b : b \in x}

Not(x) == U64(Word \ x)
And(x, y) == U64(x \cap y)
Or(x, y) == U64(x \cup y)
Xor(x, y) == U64((x \ y) \cup (y \ x))

\* x << k and x >> k for 0 <= k < 64
Shl(x, k) == {b + k : b \in x} \cap Word
Shr(x, k) == {b - k : b \in x} \cap Word

\* the lowest and the highest set bit of x among lo .. hi, by bisection
RECURSIVE LowestIn(_, _, _)
LowestIn(x, lo, hi) ==
    IF lo = hi THEN lo
    ELSE LET mid == (lo + hi) \div 2
         IN  IF \E b \in lo .. mid : b \in x
             THEN LowestIn(x, lo, mid)
             ELSE LowestIn(x, mid + 1, hi)

RECURSIVE HighestIn(_, _, _)
HighestIn(x, lo, hi) ==
    IF lo = hi THEN lo
    ELSE LET mid == (lo + hi + 1) \div 2
         IN  IF \E b \in mid .. hi : b \in x
             THEN HighestIn(x, mid, hi)
             ELSE HighestIn(x, lo, mid - 1)

\* u64::trailing_zeros and u64::leading_zeros
trailing_zeros(x) == IF x = {} THEN ChunkBits ELSE LowestIn(x, 0, ChunkBits - 1)
leading_zeros(x) ==
    IF x = {} THEN ChunkBits ELSE (ChunkBits - 1) - HighestIn(x, 0, ChunkBits - 1)

\* x < y on u64: the highest bit in which they differ is a bit of y
ULess(x, y) == x # y /\ HighestIn(Xor(x, y), 0, ChunkBits - 1) \in y

\* x.wrapping_sub(y): bit k of the difference is x_k xor y_k xor the borrow
\* into bit k, and there is a borrow into bit k iff x mod 2^k < y mod 2^k,
\* that is iff the highest bit below k in which x and y differ is a bit of y
wrapping_sub(x, y) ==
    LET d == Xor(x, y)
    IN  {k \in Word :
            LET dl == {b \in d : b < k}
                borrow == dl # {} /\ HighestIn(dl, 0, ChunkBits - 1) \in y
            IN  ((k \in x) # (k \in y)) # borrow}

\* x.wrapping_sub(1): the borrow runs through the trailing zeroes of x and
\* stops at its lowest set bit
wrapping_dec(x) ==
    IF x = {} THEN Word
    ELSE LET m == trailing_zeros(x) IN U64((x \ {m}) \cup (0 .. (m - 1)))

\* x.wrapping_neg() = !(x - 1)
wrapping_neg(x) == Not(wrapping_dec(x))

\* x.saturating_sub(1)
saturating_dec(x) == IF x = {} THEN {} ELSE wrapping_dec(x)

----------------------------------------------------------------------------
(* src/bit.rs                                                              *)

R(x) == And(x, wrapping_dec(x))

E(x) == And(x, wrapping_neg(x))

S(x) == Xor(x, saturating_dec(x))

leading_ones(x, pos) == leading_zeros(Not(Shl(x, ChunkBits - pos)))

----------------------------------------------------------------------------
(* src/index_builder/backend/fallback.rs                                   *)
(* A u64 that holds eight bytes is a function from the lane (0 = least     *)
(* significant byte) to the byte; an m256i is a sequence of four of them.  *)

Lanes == 0 .. 7
Bytes == 0 .. 255

RECURSIVE Xor8(_, _)
Xor8(a, b) ==
    IF a = 0 /\ b = 0 THEN 0
    ELSE (((a % 2) + (b % 2)) % 2) + 2 * Xor8(a \div 2, b \div 2)

\* one lane of `!((((x & !HI) + !HI) | x) >> 7) & LO` after `x ^= y`:
\* the lane sum is at most 254, so no carry leaves the lane
StructuralBytes == {Backslash, Quote, Colon, Comma, LeftBrace, RightBrace, LeftBracket, RightBracket}

EqLane == [a \in StructuralBytes |-> [b \in Bytes |->
             LET x == Xor8(a, b)
                 t == (x % 128) + 127
                 hi == IF t \div 128 = 1 \/ x \div 128 = 1 THEN 1 ELSE 0
             IN  1 - hi]]

bytewise_equal(x, y) == [l \in Lanes |-> EqLane[x[l]][y[l]]]

\* slice_to_u64 reading the eight bytes in little-endian order
slice_to_u64_m(s, offset) == [l \in Lanes |-> At(s, offset + l)]

slice_to_u64(s, offset) == [l \in Lanes |-> At(s, offset + (7 - l))]

splat(x) == [w \in 1 .. 4 |-> [l \in Lanes |-> x]]

load(s, i) == [w \in 1 .. 4 |-> slice_to_u64(s, i + 8 * (w - 1))]

load_partial(s, i) ==
    [w \in 1 .. 4 |-> [l \in Lanes |->
        LET x == i + 8 * (w - 1) + (7 - l)
        IN  IF x < Len(s) THEN At(s, x) ELSE 0]]

m256i_eq(a, b) == [w \in 1 .. 4 |-> bytewise_equal(a[w], b[w])]

\* x.wrapping_mul(0x8040_2010_0804_0201) for x with lanes in {0, 1}: the
\* partial products 2^(8j + 9k) are pairwise distinct, so they never carry
MulMagic(x) == {8 * j + 9 * k : j \in {l \in Lanes : x[l] = 1}, k \in Lanes} \cap Word

move_mask(v) ==
    UNION {And(Shr(MulMagic(v[w]), 56 - 8 * (w - 1)), (8 * (w - 1)) .. (8 * (w - 1) + 7)) : w \in 1 .. 4}

fallback_cmp1(b, b0) == move_mask(m256i_eq(b, b0))

fallback_cmp2(b, b0, b1) == Or(fallback_cmp1(b, b0), Shl(move_mask(m256i_eq(b, b1)), 32))

ZeroVec == splat(0)

\* the Bitmap literal of the source, one comparison per structural character
FallbackBitmap(b0, b1, two) ==
    LET c(ch) == IF two THEN fallback_cmp2(splat(ch), b0, b1) ELSE fallback_cmp1(splat(ch), b0)
    IN  [backslash |-> c(Backslash), quote |-> c(Quote), colon |-> c(Colon), comma |-> c(Comma),
         left_brace |-> c(LeftBrace), right_brace |-> c(RightBrace),
         left_bracket |-> c(LeftBracket), right_bracket |-> c(RightBracket)]

fallback_create_full_bitmap(s, offset) ==
    FallbackBitmap(load(s, offset), load(s, offset + 32), TRUE)

fallback_create_partial_bitmap(s, offset) ==
    LET x == Len(s) - offset
    IN  IF x < 32 THEN FallbackBitmap(load_partial(s, offset), ZeroVec, FALSE)
        ELSE IF x = 32 THEN FallbackBitmap(load(s, offset), ZeroVec, FALSE)
        ELSE FallbackBitmap(load(s, offset), load_partial(s, offset + 32), TRUE)

----------------------------------------------------------------------------
(* src/index_builder/backend/sse2.rs and avx.rs                            *)
(* A u8xN is a function from the lane 0..N-1 to the byte in it; the mask   *)
(* of a lane-wise comparison has bit i set iff lane i compared equal.      *)

simd_load(s, offset, n) == [i \in 0 .. (n - 1) |-> At(s, offset + i)]

\* load_partial / from_slice_unaligned_partial: the tail copied into zeroes
simd_load_partial(s, offset, n) ==
    [i \in 0 .. (n - 1) |-> IF offset + i < Len(s) THEN At(s, offset + i) ELSE 0]

simd_mask(ch, v) == {i \in DOMAIN v : v[i] = ch}

SimdBitmap(vs, n) ==
    LET c(ch) == UNION {Shl(simd_mask(ch, vs[k]), n * (k - 1)) : k \in 1 .. Len(vs)}
    IN  [backslash |-> c(Backslash), quote |-> c(Quote), colon |-> c(Colon), comma |-> c(Comma),
         left_brace |-> c(LeftBrace), right_brace |-> c(RightBrace),
         left_bracket |-> c(LeftBracket), right_bracket |-> c(RightBracket)]

sse2_create_full_bitmap(s, offset) ==
    SimdBitmap(<<simd_load(s, offset, 16), simd_load(s, offset + 16, 16),
                 simd_load(s, offset + 32, 16), simd_load(s, offset + 48, 16)>>, 16)

sse2_create_partial_bitmap(s, offset) ==
    LET x == Len(s) - offset
        full(k) == simd_load(s, offset + 16 * k, 16)
        part(k) == simd_load_partial(s, offset + 16 * k, 16)
    IN  IF x < 16 THEN SimdBitmap(<<part(0)>>, 16)
        ELSE IF x = 16 THEN SimdBitmap(<<full(0)>>, 16)
        ELSE IF x < 32 THEN SimdBitmap(<<full(0), part(1)>>, 16)
        ELSE IF x = 32 THEN SimdBitmap(<<full(0), full(1)>>, 16)
        ELSE IF x < 48 THEN SimdBitmap(<<full(0), full(1), part(2)>>, 16)
        ELSE IF x = 48 THEN SimdBitmap(<<full(0), full(1), full(2)>>, 16)
        ELSE SimdBitmap(<<full(0), full(1), full(2), part(3)>>, 16)

avx_create_full_bitmap(s, offset) ==
    SimdBitmap(<<simd_load(s, offset, 32), simd_load(s, offset + 32, 32)>>, 32)

avx_create_partial_bitmap(s, offset) ==
    LET x == Len(s) - offset
    IN  IF x < 32 THEN SimdBitmap(<<simd_load_partial(s, offset, 32)>>, 32)
        ELSE IF x = 32 THEN SimdBitmap(<<simd_load(s, offset, 32)>>, 32)
        ELSE SimdBitmap(<<simd_load(s, offset, 32), simd_load_partial(s, offset + 32, 32)>>, 32)

----------------------------------------------------------------------------
(* src/index_builder/backend/mod.rs: the Backend trait                     *)

Backends == {"fallback", "sse2", "avx"}

create_full_bitmap(b, s, offset) ==
    CASE b = "fallback" -> fallback_create_full_bitmap(s, offset)
      [] b = "sse2" -> sse2_create_full_bitmap(s, offset)
      [] b = "avx" -> avx_create_full_bitmap(s, offset)

create_partial_bitmap(b, s, offset) ==
    CASE b = "fallback" -> fallback_create_partial_bitmap(s, offset)
      [] b = "sse2" -> sse2_create_partial_bitmap(s, offset)
      [] b = "avx" -> avx_create_partial_bitmap(s, offset)

----------------------------------------------------------------------------
(* src/index_builder/builder.rs: pass 1                                    *)

build_structural_character_bitmaps(s, b) ==
    [i \in 1 .. (Len(s) \div ChunkBits) |-> create_full_bitmap(b, s, (i - 1) * ChunkBits)]
    \o (IF Len(s) % ChunkBits # 0
        THEN <<create_partial_bitmap(b, s, (Len(s) \div ChunkBits) * ChunkBits)>>
        ELSE <<>>)

----------------------------------------------------------------------------
(* src/index_builder/builder.rs: pass 2                                    *)
(* Chunk indices are 0-based as in the source; bitmaps[i] of the source is *)
(* At(bitmaps, i).                                                         *)

RECURSIVE ones_in_earlier_chunks(_, _, _)
ones_in_earlier_chunks(b, k, ones) ==
    IF k < 0 THEN ones
    ELSE LET l == leading_ones(At(b, k).backslash, ChunkBits)
         IN  IF l < ChunkBits THEN ones + l
             ELSE ones_in_earlier_chunks(b, k - 1, ones + ChunkBits)

\* consecutive_ones that stops at the boundary of the chunk
consecutive_ones_m(b, pos) == leading_ones(At(b, Len(b) - 1).backslash, pos)

\* b is the slice bitmaps[0 .. i + 1]
consecutive_ones(b, pos) ==
    LET ones == leading_ones(At(b, Len(b) - 1).backslash, pos)
    IN  IF ones < pos THEN ones
        ELSE ones_in_earlier_chunks(b, Len(b) - 2, ones)

\* the loop `while bsq != 0`, returning u
RECURSIVE escaping_bits(_, _, _, _)
escaping_bits(bms, i, bsq, u) ==
    IF bsq = {} THEN u
    ELSE LET target == E(bsq)
             pos == ChunkBits - leading_zeros(target)
             odd == consecutive_ones(SubSeq(bms, 1, i + 1), pos) % 2 = 1
             u2 == IF odd THEN Or(u, target) ELSE u
         IN  CASE IsU64(u2) -> escaping_bits(bms, i, Xor(bsq, target), u2)

RECURSIVE remove_unstructural_quotes_from(_, _, _)
remove_unstructural_quotes_from(bms, i, uu) ==
    IF i >= Len(bms) THEN bms
    ELSE LET q1 == At(bms, i).quote
             q2 == IF i + 1 = Len(bms) THEN {} ELSE At(bms, i + 1).quote
             bsq == And(Or(Shr(q1, 1), Shl(q2, 63)), At(bms, i).backslash)
             u == escaping_bits(bms, i, bsq, {})
             cleared == And(q1, Not(Or(Shr(uu, 63), Shl(u, 1))))
         IN  remove_unstructural_quotes_from([bms EXCEPT ![i + 1].quote = cleared], i + 1, u)

remove_unstructural_quotes(bms) == remove_unstructural_quotes_from(bms, 0, {})

----------------------------------------------------------------------------
(* src/index_builder/builder.rs: pass 3                                    *)

\* the loop `while m_quote != 0`, returning m_string and n
RECURSIVE string_mask(_, _, _)
string_mask(m_quote, m_string, n) ==
    IF m_quote = {} THEN [m_string |-> m_string, n |-> n]
    ELSE LET m == Xor(m_string, S(m_quote))
         IN  CASE IsU64(m) -> string_mask(R(m_quote), m, n + 1)

\* mask_chunk that leaves the comma field unmasked
mask_chunk_m(b, m) ==
    [b EXCEPT !.colon = And(@, Not(m)),
              !.left_brace = And(@, Not(m)), !.right_brace = And(@, Not(m)),
              !.left_bracket = And(@, Not(m)), !.right_bracket = And(@, Not(m))]

mask_chunk(b, m) ==
    [b EXCEPT !.colon = And(@, Not(m)), !.comma = And(@, Not(m)),
              !.left_brace = And(@, Not(m)), !.right_brace = And(@, Not(m)),
              !.left_bracket = And(@, Not(m)), !.right_bracket = And(@, Not(m))]

RECURSIVE remove_unstructural_characters_from(_, _, _)
remove_unstructural_characters_from(bms, i, n) ==
    IF i >= Len(bms) THEN [bitmaps |-> bms, n |-> n]
    ELSE LET r == string_mask(At(bms, i).quote, {}, n)
             m_string == IF r.n % 2 = 1 THEN Xor(r.m_string, Word) ELSE r.m_string
         IN  remove_unstructural_characters_from(
                 [bms EXCEPT ![i + 1] = mask_chunk(@, m_string)], i + 1, r.n)

\* the bitmaps after the loop, and the n that `debug_assert!(n.is_even())` reads
remove_unstructural_characters(bms) == remove_unstructural_characters_from(bms, 0, 0)

----------------------------------------------------------------------------
(* src/index_builder/builder.rs: pass 4                                    *)


\* the loop `while m_leftbit != 0 && (m_rightbit == 0 || m_leftbit < m_rightbit)`
RECURSIVE push_lefts(_, _, _, _, _)
push_lefts(s, i, b, m_left, m_rightbit) ==
    LET m_leftbit == E(m_left)
    IN  IF m_leftbit # {} /\ (m_rightbit = {} \/ ULess(m_leftbit, m_rightbit))
        THEN LET t == And(m_leftbit, b.left_brace) # {}
                 s2 == Append(s, <<i, m_leftbit, t>>)
             IN  CASE Len(s2) > 0 -> push_lefts(s2, i, b, R(m_left), m_rightbit)
        ELSE [s |-> s, m_left |-> m_left]

\* clear_scope that leaves the chunks strictly between j and i as they are
clear_scope_m(bm, i, j, m_leftbit, m_rightbit) ==
    IF i = j
    THEN [bm EXCEPT ![i + 1] = And(@, Not(wrapping_sub(m_rightbit, m_leftbit)))]
    ELSE [k \in DOMAIN bm |->
            IF k = j + 1 THEN And(bm[k], wrapping_dec(m_leftbit))
            ELSE IF k = i + 1 THEN And(bm[k], Not(wrapping_dec(m_rightbit)))
            ELSE bm[k]]

\* clear_scope that leaves the chunk of the opener as it is when the closer
\* lies in a later chunk
clear_scope_m2(bm, i, j, m_leftbit, m_rightbit) ==
    IF i = j
    THEN [bm EXCEPT ![i + 1] = And(@, Not(wrapping_sub(m_rightbit, m_leftbit)))]
    ELSE [k \in DOMAIN bm |->
            IF k = i + 1 THEN And(bm[k], Not(wrapping_dec(m_rightbit)))
            ELSE IF j + 1 < k /\ k < i + 1 THEN {}
            ELSE bm[k]]

\* the masking of B_colon[lv] or B_comma[lv] (one Vec<u64>) when the scope
\* opened at (j, m_leftbit) is closed at (i, m_rightbit)
clear_scope(bm, i, j, m_leftbit, m_rightbit) ==
    IF i = j
    THEN [bm EXCEPT ![i + 1] = And(@, Not(wrapping_sub(m_rightbit, m_leftbit)))]
    ELSE [k \in DOMAIN bm |->
            IF k = j + 1 THEN And(bm[k], wrapping_dec(m_leftbit))
            ELSE IF k = i + 1 THEN And(bm[k], Not(wrapping_dec(m_rightbit)))
            ELSE IF j + 1 < k /\ k < i + 1 THEN {}
            ELSE bm[k]]

\* kind_mismatch reading the kind of the closer from the right_bracket field
kind_mismatch_m(t, m_rightbit, b) == t # (And(m_rightbit, b.right_bracket) # {})

\* `t != (m_rightbit & b.right_brace != 0)`
kind_mismatch(t, m_rightbit, b) == t # (And(m_rightbit, b.right_brace) # {})

\* the body of `loop { ... }` for chunk i, until it breaks or returns Err
RECURSIVE chunk_loop(_, _, _, _, _, _)
chunk_loop(st, i, b, m_left, m_right, lvl) ==
    LET m_rightbit == E(m_right)
        pushed == push_lefts(st.s, i, b, m_left, m_rightbit)
        s1 == pushed.s
    IN  IF m_rightbit = {} THEN [st EXCEPT !.s = s1]
        ELSE IF s1 = <<>> THEN [st EXCEPT !.s = s1, !.err = "s.pop()"]
        ELSE LET top == s1[Len(s1)]
                 s2 == SubSeq(s1, 1, Len(s1) - 1)
                 j == top[1]
                 mlb == top[2]
                 t == top[3]
             IN  IF kind_mismatch(t, m_rightbit, b)
                 THEN [st EXCEPT !.s = s2, !.err = "invalid bracket/brace"]
                 ELSE LET st2 ==
                            IF Len(s2) > 0 /\ Len(s2) - 1 < lvl
                            THEN [st EXCEPT !.s = s2,
                                     !.b_colon[Len(s2)] = clear_scope(@, i, j, mlb, m_rightbit),
                                     !.b_comma[Len(s2)] = clear_scope(@, i, j, mlb, m_rightbit)]
                            ELSE [st EXCEPT !.s = s2]
                      IN  chunk_loop(st2, i, b, pushed.m_left, R(m_right), lvl)

RECURSIVE leveled_from(_, _, _, _)
leveled_from(st, bms, i, lvl) ==
    IF i >= Len(bms) \/ st.err # "" THEN st
    ELSE LET b == At(bms, i)
         IN  leveled_from(
                 chunk_loop(st, i, b, Or(b.left_brace, b.left_bracket),
                            Or(b.right_brace, b.right_bracket), lvl),
                 bms, i + 1, lvl)

\* build_leveled_bitmaps that fills B_colon from the comma field
build_leveled_bitmaps_m(bms, colon0, comma0, lvl) ==
    leveled_from(
        [s |-> <<>>, err |-> "",
         b_colon |-> [l \in 1 .. lvl |-> colon0[l] \o [w \in DOMAIN bms |-> bms[w].comma]],
         b_comma |-> [l \in 1 .. lvl |-> comma0[l] \o [w \in DOMAIN bms |-> bms[w].comma]]],
        bms, 0, lvl)

\* inner.b_colon / inner.b_comma hold `lvl` vectors; err = "" stands for Ok(())
build_leveled_bitmaps(bms, colon0, comma0, lvl) ==
    leveled_from(
        [s |-> <<>>, err |-> "",
         b_colon |-> [l \in 1 .. lvl |-> colon0[l] \o [w \in DOMAIN bms |-> bms[w].colon]],
         b_comma |-> [l \in 1 .. lvl |-> comma0[l] \o [w \in DOMAIN bms |-> bms[w].comma]]],
        bms, 0, lvl)

----------------------------------------------------------------------------
(* src/query.rs                                                            *)
(* A string is the sequence of its bytes.  A node of the tree is named by  *)
(* the sequence of field names that leads to it from the root (<<>>), and  *)
(* an Option is a sequence of at most one element: <<>> is None, <<x>> is  *)
(* Some(x).                                                                *)

starts_with(s, prefix) ==
    Len(s) >= Len(prefix) /\ SubSeq(s, 1, Len(prefix)) = prefix

\* str::split(sep): the pieces between the separators, empty ones included
RECURSIVE split_from(_, _, _, _)
split_from(s, sep, i, cur) ==
    IF i > Len(s) THEN <<cur>>
    ELSE IF s[i] = sep THEN <<cur>> \o split_from(s, sep, i + 1, <<>>)
    ELSE split_from(s, sep, i + 1, Append(cur, s[i]))

split(s, sep) == split_from(s, sep, 1, <<>>)

\* the root's node_id is !0 (usize::MAX), written -1
QueryTreeDefault ==
    [nodes |-> (<<>> :> [node_id |-> -1, query_id |-> <<>>, level |-> 0]),
     paths |-> <<>>, max_level |-> 0, num_nodes |-> 0]

node_level(t, k) == t.nodes[k].level
path_id(t, k) == t.nodes[k].query_id
children(t, k) ==
    {c \in DOMAIN t.nodes : Len(c) = Len(k) + 1 /\ SubSeq(c, 1, Len(k)) = k}
is_leaf(t, k) == children(t, k) = {}
num_children(t, k) == Cardinality(children(t, k))
find_child(t, k, field) ==
    IF Append(k, field) \in DOMAIN t.nodes THEN <<Append(k, field)>> ELSE <<>>
max_level(t) == t.max_level
num_paths(t) == Len(t.paths)

\* QueryTree::num_nodes and QueryNode::node_id are called by QueryParser and
\* not defined in query.rs.  They follow the specification: the evaluator
\* owns one colon-position buffer for every node it visits, the root
\* included, so the root (node_id !0) takes index 0 and the node numbered n by
\* add_path takes index n + 1.
num_nodes(t) == t.num_nodes + 1
node_id(t, k) == t.nodes[k].node_id + 1

\* a loop over the fields that skips an empty field
RECURSIVE add_fields_m(_, _, _, _)
add_fields_m(t, cur, fields, k) ==
    IF k > Len(fields) THEN [tree |-> t, cur |-> cur, ok |-> TRUE]
    ELSE IF fields[k] = <<>> THEN add_fields_m(t, cur, fields, k + 1)
    ELSE LET child == Append(cur, fields[k])
             node == [node_id |-> t.num_nodes, query_id |-> <<>>,
                      level |-> t.nodes[cur].level + 1]
             t2 == IF child \in DOMAIN t.nodes THEN t
                   ELSE [t EXCEPT !.nodes = (child :> node) @@ t.nodes,
                                  !.num_nodes = @ + 1]
         IN  add_fields_m(t2, child, fields, k + 1)

\* the loop over the fields of add_path: an empty field returns Err with the
\* nodes of the fields before it already inserted
RECURSIVE add_fields(_, _, _, _)
add_fields(t, cur, fields, k) ==
    IF k > Len(fields) THEN [tree |-> t, cur |-> cur, ok |-> TRUE]
    ELSE IF fields[k] = <<>> THEN [tree |-> t, cur |-> cur, ok |-> FALSE]
    ELSE LET child == Append(cur, fields[k])
             node == [node_id |-> t.num_nodes, query_id |-> <<>>,
                      level |-> t.nodes[cur].level + 1]
             t2 == IF child \in DOMAIN t.nodes THEN t
                   ELSE [t EXCEPT !.nodes = (child :> node) @@ t.nodes,
                                  !.num_nodes = @ + 1]
         IN  add_fields(t2, child, fields, k + 1)

\* an add_path that takes the level of the last path for max_level
add_path_m(t, path) ==
    IF ~starts_with(path, <<Dollar, Dot>>) THEN [tree |-> t, ok |-> FALSE]
    ELSE LET r == add_fields(t, <<>>, split(SubSeq(path, 3, Len(path)), Dot), 1)
         IN  IF ~r.ok THEN [tree |-> r.tree, ok |-> FALSE]
             ELSE [tree |-> [r.tree EXCEPT
                                !.nodes[r.cur].query_id = <<Len(r.tree.paths)>>,
                                !.max_level = r.tree.nodes[r.cur].level,
                                !.paths = Append(@, path)],
                   ok |-> TRUE]

add_path(t, path) ==
    IF ~starts_with(path, <<Dollar, Dot>>) THEN [tree |-> t, ok |-> FALSE]
    ELSE LET r == add_fields(t, <<>>, split(SubSeq(path, 3, Len(path)), Dot), 1)
             lv == r.tree.nodes[r.cur].level
         IN  IF ~r.ok THEN [tree |-> r.tree, ok |-> FALSE]
             ELSE [tree |-> [r.tree EXCEPT
                                !.nodes[r.cur].query_id = <<Len(r.tree.paths)>>,
                                !.max_level = IF lv > @ THEN lv ELSE @,
                                !.paths = Append(@, path)],
                   ok |-> TRUE]

----------------------------------------------------------------------------
(* src/index_builder/index.rs                                              *)
(* An index is [record, bitmaps, b_colon, b_comma].  Positions are 0-based *)
(* as in the source.                                                       *)

\* bit::L, src/bit.rs
L(x) == IF x = {} THEN {} ELSE x \ {(ChunkBits - 1) - leading_zeros(x)}

\* the loop `while m_bits != 0` of generate_positions over one chunk
RECURSIVE chunk_positions(_, _, _, _, _)
chunk_positions(m_bits, i, begin, end, cp) ==
    IF m_bits = {} THEN cp
    ELSE LET offset == i * ChunkBits + trailing_zeros(E(m_bits))
             cp2 == IF begin <= offset /\ offset < end THEN Append(cp, offset) ELSE cp
         IN  CASE Len(cp2) >= 0 -> chunk_positions(R(m_bits), i, begin, end, cp2)

RECURSIVE positions_from(_, _, _, _, _, _)
positions_from(bitmap, i, last, begin, end, cp) ==
    IF i >= last THEN cp
    ELSE positions_from(bitmap, i + 1, last, begin, end,
                        chunk_positions(At(bitmap, i), i, begin, end, cp))

\* `for i in begin / 64..(end - 1 + 63) / 64` in usize. With end = 0 the
\* subtraction overflows: a build with overflow checks panics, and a build
\* without them wraps, usize::MAX + 63 being 62, so that the range is empty.
generate_positions(bitmap, begin, end, cp) ==
    IF end = 0 /\ overflow_checks THEN [panic |-> TRUE, cp |-> cp]
    ELSE [panic |-> FALSE,
          cp |-> positions_from(bitmap, begin \div ChunkBits,
                                (IF end = 0 THEN 63 - 1 ELSE end - 1 + 63) \div ChunkBits,
                                begin, end, cp)]

\* a colon_positions that reports success with nothing found for a level
\* the index does not have
colon_positions_m(index, begin, end, lv) ==
    IF lv < Len(index.b_colon)
    THEN [ok |-> TRUE] @@ generate_positions(index.b_colon[lv + 1], begin, end, <<>>)
    ELSE [ok |-> TRUE, cp |-> <<>>, panic |-> FALSE]

\* cp.clear(), then the positions; ok is the bool returned, and panic tells
\* that generate_positions has panicked, so that nothing is returned
colon_positions(index, begin, end, lv) ==
    IF lv < Len(index.b_colon)
    THEN [ok |-> TRUE] @@ generate_positions(index.b_colon[lv + 1], begin, end, <<>>)
    ELSE [ok |-> FALSE, cp |-> <<>>, panic |-> FALSE]

comma_positions(index, begin, end, lv) ==
    IF lv < Len(index.b_comma)
    THEN [ok |-> TRUE] @@ generate_positions(index.b_comma[lv + 1], begin, end, <<>>)
    ELSE [ok |-> FALSE, cp |-> <<>>, panic |-> FALSE]

\* the loop `while m_quote != 0` of find_object_field over chunk i; ei is the
\* Option of the source, found tells that the function has returned
RECURSIVE field_in_chunk(_, _, _, _)
field_in_chunk(m_quote, i, end, ei) ==
    IF m_quote = {} THEN [found |-> FALSE, ei |-> ei, si |-> 0]
    ELSE LET offset == (i + 1) * ChunkBits - leading_zeros(m_quote) - 1
         IN  IF offset < end /\ ei # <<>>
             THEN [found |-> TRUE, ei |-> ei, si |-> offset + 1]
             ELSE field_in_chunk(L(m_quote), i, end,
                                 IF offset < end THEN <<offset>> ELSE ei)

\* the chunks first .. i, from i downwards; bitmaps[i] panics past the last
\* chunk
RECURSIVE field_from(_, _, _, _, _)
field_from(index, i, first, end, ei) ==
    IF i < first THEN [err |-> "InvalidRecord", field |-> <<>>, si |-> 0]
    ELSE IF i >= Len(index.bitmaps) THEN [err |-> "panic", field |-> <<>>, si |-> 0]
    ELSE LET r == field_in_chunk(At(index.bitmaps, i).quote, i, end, ei)
         IN  IF r.found
             THEN [err |-> "", field |-> SubSeq(index.record, r.si + 1, r.ei[1]),
                   si |-> r.si]
             ELSE field_from(index, i - 1, first, end, r.ei)

find_object_field(index, begin, end) ==
    field_from(index, ((end + 1 + 63) \div ChunkBits) - 1, begin \div ChunkBits, end, <<>>)

ValueWhitespace == {Space, Tab, CarriageReturn, LineFeed}

RECURSIVE skip_leading(_, _, _)
skip_leading(s, begin, end) ==
    IF begin < end /\ At(s, begin) \in ValueWhitespace
    THEN skip_leading(s, begin + 1, end)
    ELSE begin

\* a second loop that removes every delimiter at the end
skip_trailing_m(s, begin, end, delim, seen_delim) ==
    LET keep == {p \in begin .. (end - 1) : At(s, p) \notin ValueWhitespace \cup {delim}}
    IN  IF keep = {} THEN begin ELSE (CHOOSE p \in keep : \A q \in keep : q <= p) + 1

RECURSIVE skip_trailing(_, _, _, _, _)
skip_trailing(s, begin, end, delim, seen_delim) ==
    IF end > begin /\ At(s, end - 1) \in ValueWhitespace
    THEN skip_trailing(s, begin, end - 1, delim, seen_delim)
    ELSE IF end > begin /\ At(s, end - 1) = delim /\ ~seen_delim
    THEN skip_trailing(s, begin, end - 1, delim, TRUE)
    ELSE end

\* find_object_value that never removes the delimiter at the end
find_object_value_in_m(s, begin, end, delim) ==
    LET b == skip_leading(s, begin, end)
    IN  <<b, skip_trailing(s, b, end, delim, TRUE)>>

\* the free function find_object_value(s, begin, end, delim)
find_object_value_in(s, begin, end, delim) ==
    LET b == skip_leading(s, begin, end)
    IN  <<b, skip_trailing(s, b, end, delim, FALSE)>>

find_object_value(index, begin, end, is_last_field) ==
    find_object_value_in(index.record, begin, end,
                         IF is_last_field THEN RightBrace ELSE Comma)

\* the second loop of the free function find_array_value, `while end >=
\* begin`: s[end - 1] is read also when end = begin, which underflows for
\* end = 0 (a panic with overflow checks, and an index past the slice without)
RECURSIVE array_skip_trailing(_, _, _)
array_skip_trailing(s, begin, end) ==
    IF end >= begin
    THEN IF end = 0 \/ end - 1 >= Len(s) THEN [panic |-> TRUE, end |-> end]
         ELSE IF At(s, end - 1) \in ValueWhitespace
         THEN array_skip_trailing(s, begin, end - 1)
         ELSE [panic |-> FALSE, end |-> end]
    ELSE [panic |-> FALSE, end |-> end]

\* the free function find_array_value(s, begin, end)
find_array_value_in(s, begin, end) ==
    LET b == skip_leading(s, begin, end)
        e == array_skip_trailing(s, b, end)
    IN  [panic |-> e.panic, range |-> <<b, e.end>>]

find_array_value(index, begin, end) == find_array_value_in(index.record, begin, end)

\* str::is_char_boundary: the start, the end, and every byte that is no
\* continuation byte (10xxxxxx) of a UTF-8 sequence
is_char_boundary(s, p) ==
    p = 0 \/ p = Len(s) \/ (p < Len(s) /\ At(s, p) \notin 128 .. 191)

\* &record[begin..end]; record is a str, and the slice panics when
\* begin > end or end > len, with or without the debug_assert, and when
\* begin or end is no char boundary
substr(index, begin, end) ==
    IF /\ begin <= end
       /\ end <= Len(index.record)
       /\ is_char_boundary(index.record, begin)
       /\ is_char_boundary(index.record, end)
    THEN [panic |-> FALSE, str |-> SubSeq(index.record, begin + 1, end)]
    ELSE [panic |-> TRUE, str |-> <<>>]

----------------------------------------------------------------------------
(* src/pattern_tree.rs                                                     *)
(* A pattern is a sequence of pairs <<field, pos>>.  A node of the tree is *)
(* named by the sequence of pairs that leads to it from the root (<<>>);   *)
(* its children field holds the pairs of its children in the order of the *)
(* Vec.                                                                    *)

\* PatternNode::default(): the field "$", the position !0 (written -1)
PatternNodeDefault == [field |-> <<Dollar>>, pos |-> -1, weight |-> 0, children |-> <<>>]

PatternTreeDefault == [nodes |-> (<<>> :> PatternNodeDefault)]

pattern_field(pt, k) == pt.nodes[k].field
pattern_position(pt, k) == pt.nodes[k].pos
pattern_children(pt, k) == pt.nodes[k].children
pattern_is_root(pt, k) == pt.nodes[k].field = <<Dollar>>
pattern_is_leaf(pt, k) == pt.nodes[k].children = <<>>

\* the loop of append over the pairs of the pattern, from the k-th on
RECURSIVE append_from(_, _, _, _)
append_from(pt, cur, pattern, k) ==
    IF k > Len(pattern) THEN pt
    ELSE LET pair == pattern[k]
             child == Append(cur, pair)
             found == \E i \in DOMAIN pt.nodes[cur].children :
                         pt.nodes[cur].children[i] = pair
             node == [PatternNodeDefault EXCEPT !.field = pair[1], !.pos = pair[2]]
             pt2 == IF found THEN pt
                    ELSE [nodes |-> (child :> node)
                                    @@ [pt.nodes EXCEPT ![cur].children = Append(@, pair)]]
         IN  append_from([pt2 EXCEPT !.nodes[child].weight = @ + 1], child, pattern, k + 1)

\* an append that does not count the call in the weight of the root
append_m(pt, pattern) == append_from(pt, <<>>, pattern, 1)

append(pt, pattern) ==
    append_from([pt EXCEPT !.nodes[<<>>].weight = @ + 1], <<>>, pattern, 1)

----------------------------------------------------------------------------
(* src/query_parser.rs                                                     *)
(* The scratch vector colon_positions[node_id] is cleared by every call of *)
(* colon_positions before it is filled, so cp is the value it then holds.  *)
(* It is a RefCell: held is the set of the cells borrowed by the callers,  *)
(* and borrowing a held cell, or one past the end of the vector, panics.   *)
(* A result is [err, res] with err "" for Ok(()), "InvalidRecord", or  *)
(* "panic".                                                                *)

\* char::is_whitespace, the characters that str::trim removes: the UTF-8
\* encodings of the characters with the White_Space property, U+0009 to
\* U+000D, U+0020, U+0085, U+00A0, U+1680, U+2000 to U+200A, U+2028, U+2029,
\* U+202F, U+205F and U+3000
TrimWhitespace ==
    {<<Tab>>, <<LineFeed>>, <<11>>, <<12>>, <<CarriageReturn>>, <<Space>>,
     <<194, 133>>, <<194, 160>>, <<225, 154, 128>>,
     <<226, 128, 168>>, <<226, 128, 169>>, <<226, 128, 175>>, <<226, 129, 159>>,
     <<227, 128, 128>>}
    \cup {<<226, 128, b>> : b \in 128 .. 138}

ends_with(s, suffix) ==
    Len(s) >= Len(suffix) /\ SubSeq(s, Len(s) - Len(suffix) + 1, Len(s)) = suffix

\* the record is a str: a prefix or a suffix that encodes a character is a
\* character of it
RECURSIVE trim_start(_)
trim_start(s) ==
    IF \E w \in TrimWhitespace : starts_with(s, w)
    THEN LET w == CHOOSE x \in TrimWhitespace : starts_with(s, x)
         IN  trim_start(SubSeq(s, Len(w) + 1, Len(s)))
    ELSE s

RECURSIVE trim_end(_)
trim_end(s) ==
    IF \E w \in TrimWhitespace : ends_with(s, w)
    THEN LET w == CHOOSE x \in TrimWhitespace : ends_with(s, x)
         IN  trim_end(SubSeq(s, 1, Len(s) - Len(w)))
    ELSE s

trim(s) == trim_end(trim_start(s))

RECURSIVE parse_basic(_, _, _, _, _, _, _)
RECURSIVE basic_loop(_, _, _, _, _, _, _, _, _, _)

\* one turn of `for i in (0..cp.len()).rev()`, with the current value of the
\* mutable end and the pattern collected so far
basic_loop(t, index, begin, end, node, cp, i, res, pattern, held) ==
    IF i < 0 THEN [err |-> "", res |-> res, saved |-> <<>>]
    ELSE LET f == find_object_field(index, IF i = 0 THEN begin ELSE cp[i], cp[i + 1])
             ch == find_child(t, node, f.field)
         IN  IF f.err # "" THEN [err |-> f.err, res |-> res, saved |-> <<>>]
             ELSE IF ch = <<>>
             THEN basic_loop(t, index, begin, f.si - 1, node, cp, i - 1, res, pattern,
                             held)
             ELSE LET v == find_object_value(index, cp[i + 1] + 1, end, i = Len(cp) - 1)
                      id == path_id(t, ch[1])
                      sub == substr(index, v[1], v[2])
                      res2 == IF id # <<>> /\ ~sub.panic
                                  THEN [res EXCEPT ![id[1] + 1] = <<sub.str>>]
                                  ELSE res
                      inner == IF is_leaf(t, ch[1])
                               THEN [err |-> "", res |-> res2, saved |-> <<>>]
                               ELSE parse_basic(t, index, v[1], v[2], ch[1], res2, held)
                      pattern2 == <<<<f.field, i>>>> \o pattern
                  IN  IF id # <<>> /\ sub.panic
                      THEN [err |-> "panic", res |-> res, saved |-> <<>>]
                      ELSE IF inner.err # "" THEN inner
                      ELSE IF Len(pattern2) = num_children(t, node)
                      THEN [inner EXCEPT !.saved = Append(@, <<node_id(t, node), pattern2>>)]
                      ELSE LET rest == basic_loop(t, index, begin, f.si - 1, node, cp,
                                                  i - 1, inner.res, pattern2, held)
                           IN  [rest EXCEPT !.saved = inner.saved \o @]

parse_basic(t, index, begin, end, node, res, held) ==
    LET c == colon_positions(index, begin, end, node_level(t, node))
        cell == node_id(t, node)
    IN  IF cell \notin 0 .. num_nodes(t) - 1 \/ cell \in held
        THEN [err |-> "panic", res |-> res, saved |-> <<>>]
        ELSE IF c.panic THEN [err |-> "panic", res |-> res, saved |-> <<>>]
        ELSE IF ~c.ok THEN [err |-> "InvalidRecord", res |-> res, saved |-> <<>>]
        ELSE basic_loop(t, index, begin, end, node, c.cp, Len(c.cp) - 1, res, <<>>,
                        held \cup {cell})

\* the patterns that parse_basic hands to append when save_patterns is set,
\* <<node_id, pattern>> in the order of the calls, applied to pattern_trees
RECURSIVE save(_, _, _)
save(pts, saved, k) ==
    IF k > Len(saved) THEN pts
    ELSE save([pts EXCEPT ![saved[k][1] + 1] = append(@, saved[k][2])], saved, k + 1)

\* what one call of parse_speculative has done: err as for parse_basic, ok
\* the bool it returns, res the result vector, pn the pattern node it ended
\* on, and three histories: complete, every call below and including this
\* one returned true; oob, a position i >= cp.len() was examined; tried, for
\* every `for child in pattern_node.children()` the weights of the children
\* in the order of the Vec and the number of them that were examined
Speculated(err, ok, res, pn, complete, oob, tried) ==
    [err |-> err, ok |-> ok, res |-> res, pn |-> pn, complete |-> complete,
     oob |-> oob, tried |-> tried]

\* for one `for child in pattern_node.children()`, the weights of the
\* children in the order of the Vec and the number of them examined
turn(pt, pn, n) ==
    LET ch == pattern_children(pt, pn)
    IN  <<[offered |-> [x \in DOMAIN ch |-> pt.nodes[Append(pn, ch[x])].weight],
          examined |-> n]>>

\* a child has matched: success &= the nested call, pattern_node = child
matched(child, pn, tn, inner) ==
    Speculated(inner.err, inner.ok, inner.res, IF inner.err = "" THEN child ELSE pn,
               inner.complete, inner.oob, tn \o inner.tried)

RECURSIVE parse_speculative(_, _, _, _, _, _, _, _)
RECURSIVE speculative_loop(_, _, _, _, _, _, _, _, _, _)
RECURSIVE speculative_after(_, _, _, _, _, _, _, _, _)
RECURSIVE speculative_children(_, _, _, _, _, _, _, _, _, _, _)
RECURSIVE speculative_field(_, _, _, _, _, _, _, _, _, _, _, _)
RECURSIVE speculative_value(_, _, _, _, _, _, _, _, _, _, _, _)
RECURSIVE speculative_store(_, _, _, _, _, _, _, _, _, _)

\* `for child in pattern_node.children()` from the j-th child on: ok is the
\* value of success when the loop is left, pn the value of pattern_node
speculative_children(t, pts, index, begin, end, node, cp, pn, j, res, held) ==
    LET pt == pts[node_id(t, node) + 1]
        ch == pattern_children(pt, pn)
        i == pattern_position(pt, Append(pn, ch[j]))
    IN  IF j > Len(ch) THEN Speculated("", FALSE, res, pn, TRUE, FALSE, turn(pt, pn, Len(ch)))
        ELSE IF i >= Len(cp)
        THEN Speculated("panic", FALSE, res, pn, TRUE, TRUE, turn(pt, pn, j))
        ELSE speculative_field(t, pts, index, begin, end, node, cp, pn, j, res, held,
                 find_object_field(index, IF i = 0 THEN begin ELSE cp[i], cp[i + 1]))

\* the j-th child with the field f found before its colon
speculative_field(t, pts, index, begin, end, node, cp, pn, j, res, held, f) ==
    LET pt == pts[node_id(t, node) + 1]
        child == Append(pn, pattern_children(pt, pn)[j])
        i == pattern_position(pt, child)
    IN  IF f.err # "" THEN Speculated(f.err, FALSE, res, pn, TRUE, FALSE, turn(pt, pn, j))
        ELSE IF f.field # pattern_field(pt, child)
        THEN speculative_children(t, pts, index, begin, end, node, cp, pn, j + 1, res, held)
        ELSE IF find_child(t, node, f.field) = <<>>
        THEN Speculated("panic", FALSE, res, pn, TRUE, FALSE, turn(pt, pn, j))
        ELSE speculative_value(t, pts, index, end, cp, pn, child, turn(pt, pn, j), res, held,
                 find_child(t, node, f.field)[1],
                 IF i = Len(cp) - 1 THEN [err |-> "", field |-> <<>>, si |-> end + 1]
                 ELSE find_object_field(index, cp[i + 1], cp[i + 2]))

\* the matching child: fsi from the next field nf, and the value before it
speculative_value(t, pts, index, end, cp, pn, child, tn, res, held, ch_node, nf) ==
    LET i == child[Len(child)][2]
        last == i = Len(cp) - 1
    IN  IF nf.err # "" THEN Speculated(nf.err, FALSE, res, pn, TRUE, FALSE, tn)
        ELSE speculative_store(t, pts, index, pn, child, tn, res, held, ch_node,
                 find_object_value(index, cp[i + 1] + 1, IF last THEN end ELSE nf.si - 1,
                                   last))

\* the value v of the matching child: results[id], and the nested call
speculative_store(t, pts, index, pn, child, tn, res, held, ch_node, v) ==
    LET id == path_id(t, ch_node)
        sub == substr(index, v[1], v[2])
        res2 == IF id # <<>> THEN [res EXCEPT ![id[1] + 1] = <<sub.str>>] ELSE res
    IN  IF id # <<>> /\ sub.panic
        THEN Speculated("panic", FALSE, res, pn, TRUE, FALSE, tn)
        ELSE matched(child, pn, tn,
                 IF is_leaf(t, ch_node)
                 THEN Speculated("", TRUE, res2, <<>>, TRUE, FALSE, <<>>)
                 ELSE parse_speculative(t, pts, index, v[1], v[2], ch_node, res2, held))

\* `while !pattern_node.is_leaf()` with pattern_node = pn, and the value
\* returned after it
speculative_loop(t, pts, index, begin, end, node, cp, pn, res, held) ==
    LET pt == pts[node_id(t, node) + 1]
        ended == ~pattern_is_root(pt, pn) /\ pattern_is_leaf(pt, pn)
    IN  IF pattern_is_leaf(pt, pn)
        THEN Speculated("", ended, res, pn, ended, FALSE, <<>>)
        ELSE speculative_after(t, pts, index, begin, end, node, cp, held,
                 speculative_children(t, pts, index, begin, end, node, cp, pn, 1, res, held))

\* `if !success { break; }` after the children, r being what they have done
speculative_after(t, pts, index, begin, end, node, cp, held, r) ==
    LET pt == pts[node_id(t, node) + 1]
        ended == ~pattern_is_root(pt, r.pn) /\ pattern_is_leaf(pt, r.pn)
    IN  IF r.err # "" THEN r
        ELSE IF ~r.ok THEN [r EXCEPT !.ok = ended, !.complete = @ /\ ended]
        ELSE [speculative_loop(t, pts, index, begin, end, node, cp, r.pn, r.res, held)
                EXCEPT !.complete = @ /\ r.complete,
                       !.oob = @ \/ r.oob,
                       !.tried = r.tried \o @]

parse_speculative(t, pts, index, begin, end, node, res, held) ==
    LET c == colon_positions(index, begin, end, node_level(t, node))
        cell == node_id(t, node)
    IN  IF cell \notin 0 .. num_nodes(t) - 1 \/ cell \in held
        THEN Speculated("panic", FALSE, res, <<>>, TRUE, FALSE, <<>>)
        ELSE IF c.panic THEN Speculated("panic", FALSE, res, <<>>, TRUE, FALSE, <<>>)
        ELSE IF ~c.ok THEN Speculated("InvalidRecord", FALSE, res, <<>>, TRUE, FALSE, <<>>)
        ELSE speculative_loop(t, pts, index, begin, end, node, c.cp, <<>>, res,
                              held \cup {cell})

----------------------------------------------------------------------------
(* The records handed to build                                             *)

Alphabet == {Backslash, Quote, Colon, Comma, LeftBrace, RightBrace,
             LeftBracket, RightBracket, LetterA}

RECURSIVE SeqsUpTo(_, _)
SeqsUpTo(A, n) ==
    IF n = 0 THEN {<<>>}
    ELSE LET shorter == SeqsUpTo(A, n - 1)
         IN  shorter \cup {Append(s, a) : s \in {x \in shorter : Len(x) = n - 1}, a \in A}

Repeat(c, n) == [i \in 1 .. n |-> c]

\* every record of at most MaxLen bytes over the alphabet
ShortRecords == SeqsUpTo(Alphabet, MaxLen)

\* records that reach into a second and a third chunk: a run of one byte
\* between a prefix of openers and a suffix of closers
PreAlphabet == {Backslash, Quote, LeftBrace, LeftBracket}
PostAlphabet == {Quote, Colon, RightBrace, RightBracket}
FillBytes == {Backslash, Colon, Comma, LetterA}
Runs == {ChunkBits - 1, ChunkBits, 2 * ChunkBits}
LongRecords ==
    {pre \o Repeat(c, n) \o post :
        pre \in SeqsUpTo(PreAlphabet, MaxPre), post \in SeqsUpTo(PostAlphabet, MaxPost),
        c \in FillBytes, n \in Runs}

\* records whose only or last chunk is partial, one for every branch that the
\* backends take on the length of the tail
TailLengths == {15, 16, 31, 32, 47, 48}
TailRecords ==
    {Repeat(c, n) \o post :
        post \in SeqsUpTo(PostAlphabet, MaxPost), c \in FillBytes, n \in TailLengths}

\* {"a\":":{"a,":a,"a":a}}  a record with an escaped quote, structural
\* bytes inside strings and a nested object
SampleRecords ==
    {<<LeftBrace, Quote, LetterA, Backslash, Quote, Colon, Quote, Colon,
       LeftBrace, Quote, LetterA, Comma, Quote, Colon, LetterA, Comma,
       Quote, LetterA, Quote, Colon, LetterA, RightBrace, RightBrace>>}

Records == ShortRecords \cup TailRecords \cup LongRecords \cup SampleRecords

----------------------------------------------------------------------------
(* IndexBuilder::new and IndexBuilder::build                               *)

----------------------------------------------------------------------------
(* The inputs handed to QueryParser::parse: JSON objects written out as    *)
(* text.  A value is [kind, text, members]: a scalar or an array with its  *)
(* text, or an object with its members <<[name, value], ...>>.  A writing  *)
(* is a value with the white space it is written with: sp spaces around    *)
(* every delimiter, lead more spaces after the opening brace of the record.*)

Scalar(text) == [kind |-> "scalar", text |-> text, members |-> <<>>]
Object(ms) == [kind |-> "object", text |-> <<>>, members |-> ms]
Member(n, v) == [name |-> n, value |-> v]
NoDoc == [value |-> Scalar(<<>>), sp |-> 0, lead |-> 0]

Names == {<<LetterA>>, <<LetterB>>}

\* the objects of at most MaxMembers members with distinct names from Names
\* and values from vals
ObjectsOver(vals) ==
    {Object(ms) : ms \in
        {m \in SeqsUpTo({Member(n, v) : n \in Names, v \in vals}, MaxMembers) :
            \A i, j \in DOMAIN m : i # j => m[i].name # m[j].name}}

\* a  "b\"}:"  [a,{"a":a}]
ScalarValues ==
    {Scalar(<<LetterA>>),
     Scalar(<<Quote, LetterB, Backslash, Quote, RightBrace, Colon, Quote>>),
     Scalar(<<LeftBracket, LetterA, Comma, LeftBrace, Quote, LetterA, Quote, Colon,
              LetterA, RightBrace, RightBracket>>)}

InnerValues == {Scalar(<<LetterA>>), Object(<<Member(<<LetterB>>, Scalar(<<LetterA>>))>>)}

NestedValues == ScalarValues \cup ObjectsOver(InnerValues)

PairValues ==
    {Scalar(<<Quote, LetterB, Backslash, Quote, RightBrace, Colon, Quote>>),
     Object(<<Member(<<LetterB>>, Scalar(<<LetterA>>))>>),
     Object(<<Member(<<LetterA>>, Object(<<Member(<<LetterB>>, Scalar(<<LetterA>>))>>)),
              Member(<<LetterB>>, Scalar(<<LetterA>>))>>)}

Documents ==
    {Object(ms) : ms \in {<<Member(n, v)>> : n \in Names, v \in NestedValues}}
    \cup ObjectsOver(PairValues)

RECURSIVE Write(_, _, _)
RECURSIVE WriteMembers(_, _, _)

WriteMembers(ms, k, sp) ==
    IF k > Len(ms) THEN <<>>
    ELSE (IF k > 1 THEN Repeat(Space, sp) \o <<Comma>> \o Repeat(Space, sp) ELSE <<>>)
         \o <<Quote>> \o ms[k].name \o <<Quote>>
         \o Repeat(Space, sp) \o <<Colon>> \o Repeat(Space, sp)
         \o Write(ms[k].value, sp, 0)
         \o WriteMembers(ms, k + 1, sp)

Write(v, sp, lead) ==
    IF v.kind = "scalar" THEN v.text
    ELSE <<LeftBrace>> \o Repeat(Space, lead + sp)
         \o WriteMembers(v.members, 1, sp)
         \o Repeat(Space, sp) \o <<RightBrace>>

Leads == {0, ChunkBits - 4}

Writings ==
    {[value |-> d, sp |-> 0, lead |-> n] : d \in Documents, n \in Leads}
    \cup {[value |-> d, sp |-> 1, lead |-> 0] : d \in Documents}

\* the input text of a writing, inside white space when it is written with some
\* of it: a space and U+00A0 before it, U+2028 and a space behind it
Written(w) ==
    IF w.sp = 0 THEN Write(w.value, w.sp, w.lead)
    ELSE <<Space, 194, 160>> \o Write(w.value, w.sp, w.lead) \o <<226, 128, 168, Space>>

\* inputs that are no JSON object
OtherInputs ==
    {<<>>, <<Space>>, <<LeftBracket, LetterA, RightBracket>>,
     <<194, 160>>, <<227, 128, 128, LeftBracket, RightBracket, 226, 128, 168>>}

\* inputs that start with { and are no well-formed object:
\* {"a":}   { "a": }   {"a"::a}   {"a":a,,"b":a}   {:}   {"a":"}   {"a":a
\* {a":a}   {"a":{"b":}}
MalformedInputs ==
    {<<LeftBrace, Quote, LetterA, Quote, Colon, RightBrace>>,
     <<LeftBrace, Space, Quote, LetterA, Quote, Colon, Space, RightBrace>>,
     <<LeftBrace, Quote, LetterA, Quote, Colon, Colon, LetterA, RightBrace>>,
     <<LeftBrace, Quote, LetterA, Quote, Colon, LetterA, Comma, Comma,
       Quote, LetterB, Quote, Colon, LetterA, RightBrace>>,
     <<LeftBrace, Colon, RightBrace>>,
     <<LeftBrace, Quote, LetterA, Quote, Colon, Quote, RightBrace>>,
     <<LeftBrace, Quote, LetterA, Quote, Colon, LetterA>>,
     <<LeftBrace, LetterA, Quote, Colon, LetterA, RightBrace>>,
     <<LeftBrace, Quote, LetterA, Quote, Colon,
       LeftBrace, Quote, LetterB, Quote, Colon, RightBrace, RightBrace>>}

\* "$.a"  "$.b"  "$.a.b"  and two paths that add_path rejects: "a"  "$.."
QueryPaths ==
    {<<Dollar, Dot, LetterA>>, <<Dollar, Dot, LetterB>>,
     <<Dollar, Dot, LetterA, Dot, LetterB>>,
     <<LetterA>>, <<Dollar, Dot, Dot>>}

\* no query has been made
NoQuery == [op |-> "", args |-> <<>>, ret |-> <<>>]

\* an init that reserves without clearing
init_m(v, len) == v

\* VecExt::init: clear, then reserve_exact, which changes no element
init(v, len) == <<>>

\* a borrow_mut that is always granted
try_borrow_mut_m(flag) == TRUE

\* RefCell::borrow_mut succeeds when the cell is not borrowed, and panics
\* with BorrowMutError otherwise
try_borrow_mut(flag) == flag = 0

Init ==
    /\ backend = "fallback"
    /\ level \in 0 .. MaxLevel
    /\ record = <<>>
    /\ bitmaps = <<>>
    /\ b_colon = [l \in 1 .. level |-> <<>>]
    /\ b_comma = [l \in 1 .. level |-> <<>>]
    /\ raw = <<>>
    /\ stack = <<>>
    /\ pc = "new"
    /\ tree = QueryTreeDefault
    /\ results = <<>>
    /\ doc = NoDoc
    /\ inner_borrow = 0
    /\ before = <<>>
    /\ query = NoQuery
    /\ pattern_trees = <<>>
    /\ save_patterns = FALSE
    /\ allow_fallback = TRUE
    /\ appended = <<>>
    /\ overflow_checks \in BOOLEAN

\* build is entered: inner is borrowed mutably, which panics while a
\* StructuralIndex of this builder is alive, and the three buffers are
\* cleared (VecExt::init)
Build(r) ==
    /\ pc = "new"
    /\ IF try_borrow_mut(inner_borrow)
       THEN LET b_len == (Len(r) + 63) \div ChunkBits
            IN  /\ inner_borrow' = -1
                /\ record' = r
                /\ bitmaps' = init(bitmaps, b_len)
                /\ b_colon' = [l \in DOMAIN b_colon |-> init(b_colon[l], b_len)]
                /\ b_comma' = [l \in DOMAIN b_comma |-> init(b_comma[l], b_len)]
                /\ pc' = "step1"
       ELSE /\ pc' = "BorrowMutError"
            /\ UNCHANGED <<inner_borrow, record, bitmaps, b_colon, b_comma, overflow_checks>>
    /\ UNCHANGED <<backend, level, raw, stack, tree, results, doc, before, query,
                   pattern_trees, save_patterns, allow_fallback, appended, overflow_checks>>

Step1 ==
    /\ pc = "step1"
    /\ bitmaps' = bitmaps \o build_structural_character_bitmaps(record, backend)
    /\ raw' = bitmaps'
    /\ pc' = "step2"
    /\ UNCHANGED <<backend, level, record, b_colon, b_comma, stack, tree, results, doc,
                   inner_borrow, before, query,
                   pattern_trees, save_patterns, allow_fallback, appended, overflow_checks>>

Step2 ==
    /\ pc = "step2"
    /\ bitmaps' = remove_unstructural_quotes(bitmaps)
    /\ pc' = "step3"
    /\ UNCHANGED <<backend, level, record, b_colon, b_comma, raw, stack, tree, results, doc,
                   inner_borrow, before, query,
                   pattern_trees, save_patterns, allow_fallback, appended, overflow_checks>>

\* debug_assert!(n.is_even()) panics in a build with debug assertions and is
\* absent from a build without them: with n odd either outcome is possible.
\* The panic unwinds through build, which releases the mutable borrow.
Step3 ==
    /\ pc = "step3"
    /\ LET r == remove_unstructural_characters(bitmaps)
       IN  /\ bitmaps' = r.bitmaps
           /\ pc' \in IF r.n % 2 = 1 THEN {"panic", "step4"} ELSE {"step4"}
    /\ inner_borrow' = IF pc' = "panic" THEN 0 ELSE inner_borrow
    /\ UNCHANGED <<backend, level, record, b_colon, b_comma, raw, stack, tree, results, doc,
                   before, query,
                   pattern_trees, save_patterns, allow_fallback, appended, overflow_checks>>

\* pass 4 and the end of build: the mutable borrow ends with the block, and
\* Ok holds a StructuralIndex with a Ref of inner
Step4 ==
    /\ pc = "step4"
    /\ LET r == build_leveled_bitmaps(bitmaps, b_colon, b_comma, level)
       IN  /\ b_colon' = r.b_colon
           /\ b_comma' = r.b_comma
           /\ stack' = r.s
           /\ pc' = IF r.err = "" THEN "Ok" ELSE "InvalidRecord"
           /\ inner_borrow' = IF r.err = "" THEN 1 ELSE 0
    /\ UNCHANGED <<backend, level, record, bitmaps, raw, tree, results, doc, before,
                   query,
                   pattern_trees, save_patterns, allow_fallback, appended, overflow_checks>>

Next ==
    \/ \E r \in Records : Build(r)
    \/ Step1
    \/ Step2
    \/ Step3
    \/ Step4

Spec == Init /\ [][Next]_vars

\* the same builder over each of the three backends
InitBackends ==
    /\ backend \in Backends
    /\ level = 1
    /\ record = <<>>
    /\ bitmaps = <<>>
    /\ b_colon = [l \in 1 .. level |-> <<>>]
    /\ b_comma = [l \in 1 .. level |-> <<>>]
    /\ raw = <<>>
    /\ stack = <<>>
    /\ pc = "new"
    /\ tree = QueryTreeDefault
    /\ results = <<>>
    /\ doc = NoDoc
    /\ inner_borrow = 0
    /\ before = <<>>
    /\ query = NoQuery
    /\ pattern_trees = <<>>
    /\ save_patterns = FALSE
    /\ allow_fallback = TRUE
    /\ appended = <<>>
    /\ overflow_checks \in BOOLEAN

SpecBackends == InitBackends /\ [][Next]_vars

----------------------------------------------------------------------------
(* QueryParser: the tree is filled with add_path, the parser is built over *)
(* an IndexBuilder of some level, and one record is parsed in Basic mode.  *)
(* parse runs build (Step1 .. Step4) and then parse_basic.                 *)

\* QueryParser<B> is generic over the Backend
InitParse ==
    /\ backend = "sse2"
    /\ level = 0
    /\ record = <<>>
    /\ bitmaps = <<>>
    /\ b_colon = <<>>
    /\ b_comma = <<>>
    /\ raw = <<>>
    /\ stack = <<>>
    /\ pc = "tree"
    /\ tree = QueryTreeDefault
    /\ results = <<>>
    /\ doc = NoDoc
    /\ inner_borrow = 0
    /\ before = <<>>
    /\ query = NoQuery
    /\ pattern_trees = <<>>
    /\ save_patterns = FALSE
    /\ allow_fallback = TRUE
    /\ appended = <<>>
    /\ overflow_checks \in BOOLEAN

\* the tree keeps what add_path did to it, also when add_path returns Err
AddPath(path) ==
    /\ pc = "tree"
    /\ Len(tree.paths) < MaxPaths
    /\ LET r == add_path(tree, path)
       IN  /\ tree' = r.tree
           /\ query' = [op |-> "add_path", args |-> <<path>>, ret |-> <<r.ok>>]
    /\ UNCHANGED <<backend, level, record, bitmaps, b_colon, b_comma, raw, stack,
                   pc, results, doc, inner_borrow, before,
                   pattern_trees, save_patterns, allow_fallback, appended, overflow_checks>>

\* IndexBuilder::new(backend, lv) and QueryParser::new(index_builder, tree):
\* the tree moves into the parser, no query of it is pending
NewParser(lv) ==
    /\ pc = "tree"
    /\ level' = lv
    /\ b_colon' = [l \in 1 .. lv |-> <<>>]
    /\ b_comma' = [l \in 1 .. lv |-> <<>>]
    /\ pc' = "ready"
    /\ query' = NoQuery
    /\ pattern_trees' = [c \in 1 .. num_nodes(tree) |-> PatternTreeDefault]
    /\ appended' = [c \in 1 .. num_nodes(tree) |-> <<>>]
    /\ save_patterns' = FALSE
    /\ allow_fallback' = TRUE
    /\ UNCHANGED <<backend, record, bitmaps, raw, stack, tree, results, doc, inner_borrow,
                   before, overflow_checks>>

\* parse up to the call of build: the record is trimmed and must start with
\* "{"; build then borrows inner and clears its buffers
Parse(input, d) ==
    /\ pc = "ready"
    /\ record' = trim(input)
    /\ doc' = d
    /\ LET b_len == (Len(record') + 63) \div ChunkBits
           entered == starts_with(record', <<LeftBrace>>) /\ try_borrow_mut(inner_borrow)
       IN  /\ bitmaps' = IF entered THEN init(bitmaps, b_len) ELSE bitmaps
           /\ b_colon' = IF entered THEN [l \in DOMAIN b_colon |-> init(b_colon[l], b_len)]
                         ELSE b_colon
           /\ b_comma' = IF entered THEN [l \in DOMAIN b_comma |-> init(b_comma[l], b_len)]
                         ELSE b_comma
           /\ inner_borrow' = IF entered THEN -1 ELSE inner_borrow
           /\ pc' = IF ~starts_with(record', <<LeftBrace>>) THEN "ParseInvalidRecord"
                    ELSE IF entered THEN "step1" ELSE "BorrowMutError"
    /\ UNCHANGED <<backend, level, raw, stack, tree, results, before, query,
                   pattern_trees, save_patterns, allow_fallback, appended, overflow_checks>>

\* the patterns that a parse has appended to the PatternTree of a node
patterns_of(saved, cell) ==
    LET sel == SelectSeq(saved, LAMBDA x : x[1] = cell)
    IN  [k \in DOMAIN sel |-> sel[k][2]]

\* parse returns after parse_basic has returned b: Err when b is one, else
\* what `done` says, with the patterns that parse_basic has appended
ParseReturns(b, done) ==
    /\ results' = b.res
    /\ pc' = CASE b.err = "" -> done
               [] b.err = "panic" -> "panic"
               [] OTHER -> "ParseInvalidRecord"
    /\ pattern_trees' = IF save_patterns THEN save(pattern_trees, b.saved, 1)
                         ELSE pattern_trees
    /\ appended' = IF save_patterns
                    THEN [c \in DOMAIN appended |->
                            appended[c] \o patterns_of(b.saved, c - 1)]
                    ELSE appended

\* parse after build has returned Ok: the result vector and parse_basic; the
\* index is a local of parse and is dropped when parse returns
ParseBasic ==
    /\ pc = "Ok"
    /\ ParseReturns(parse_basic(tree, [record |-> record, bitmaps |-> bitmaps,
                                       b_colon |-> b_colon, b_comma |-> b_comma],
                                0, Len(record), <<>>,
                                [i \in 1 .. num_paths(tree) |-> <<>>], {}),
                    "Parsed")
    /\ inner_borrow' = 0
    /\ UNCHANGED <<backend, level, record, bitmaps, b_colon, b_comma, raw, stack,
                   tree, doc, before, query, save_patterns, allow_fallback,
                   overflow_checks>>

NextParse ==
    \/ \E path \in QueryPaths : AddPath(path)
    \/ \E lv \in 0 .. MaxLevel : NewParser(lv)
    \/ \E w \in Writings : Parse(Written(w), w)
    \/ \E input \in OtherInputs : Parse(input, NoDoc)
    \/ \E input \in MalformedInputs : Parse(input, NoDoc)
    \/ Step1
    \/ Step2
    \/ Step3
    \/ Step4
    \/ ParseBasic

SpecParse == InitParse /\ [][NextParse]_vars

----------------------------------------------------------------------------
(* One IndexBuilder used for several records: the caller calls build again *)
(* after an earlier call has returned, with or without the StructuralIndex *)
(* of that call still alive.                                               *)

\* {"a":a}   {"a":{"b":a},"b":a}   {"a":{"b":a,"b":a}]   ]   ,:   the
\* empty record, and two records of two chunks: the second one with 60
\* spaces after its first colon, and 64 colons between { and ]
ReuseRecords ==
    {<<LeftBrace, Quote, LetterA, Quote, Colon, LetterA, RightBrace>>,
     <<LeftBrace, Quote, LetterA, Quote, Colon,
       LeftBrace, Quote, LetterB, Quote, Colon, LetterA, RightBrace, Comma,
       Quote, LetterB, Quote, Colon, LetterA, RightBrace>>,
     <<LeftBrace, Quote, LetterA, Quote, Colon,
       LeftBrace, Quote, LetterB, Quote, Colon, LetterA, Comma,
       Quote, LetterB, Quote, Colon, LetterA, RightBrace, RightBracket>>,
     <<RightBracket>>,
     <<Comma, Colon>>,
     <<>>,
     <<LeftBrace, Quote, LetterA, Quote, Colon>> \o Repeat(Space, ChunkBits - 4)
         \o <<LeftBrace, Quote, LetterB, Quote, Colon, LetterA, RightBrace, Comma,
              Quote, LetterB, Quote, Colon, LetterA, RightBrace>>,
     <<LeftBrace>> \o Repeat(Colon, ChunkBits) \o <<RightBracket>>}

InitReuse ==
    /\ backend = "sse2"
    /\ level \in 1 .. MaxLevel
    /\ record = <<>>
    /\ bitmaps = <<>>
    /\ b_colon = [l \in 1 .. level |-> <<>>]
    /\ b_comma = [l \in 1 .. level |-> <<>>]
    /\ raw = <<>>
    /\ stack = <<>>
    /\ pc = "new"
    /\ tree = QueryTreeDefault
    /\ results = <<>>
    /\ doc = NoDoc
    /\ inner_borrow = 0
    /\ before = <<>>
    /\ query = NoQuery
    /\ pattern_trees = <<>>
    /\ save_patterns = FALSE
    /\ allow_fallback = TRUE
    /\ appended = <<>>
    /\ overflow_checks \in BOOLEAN

\* the caller drops a StructuralIndex, and with it its Ref of inner
DropIndex ==
    /\ pc \in {"Ok", "new"}
    /\ inner_borrow > 0
    /\ inner_borrow' = inner_borrow - 1
    /\ UNCHANGED <<backend, level, record, bitmaps, b_colon, b_comma, raw, stack, pc,
                   tree, results, doc, before, query,
                   pattern_trees, save_patterns, allow_fallback, appended, overflow_checks>>

\* build has returned and the caller goes on to its next call of build on the
\* same builder, holding the StructuralIndex of the last call if it has not
\* dropped it
Again ==
    /\ pc \in {"Ok", "InvalidRecord"}
    /\ Len(before) < MaxBuilds - 1
    /\ before' = Append(before, [record |-> record, ok |-> pc = "Ok"])
    /\ pc' = "new"
    /\ UNCHANGED <<backend, level, record, bitmaps, b_colon, b_comma, raw, stack,
                   tree, results, doc, inner_borrow, query,
                   pattern_trees, save_patterns, allow_fallback, appended, overflow_checks>>

NextReuse ==
    \/ \E r \in ReuseRecords : Build(r)
    \/ Step1
    \/ Step2
    \/ Step3
    \/ Step4
    \/ DropIndex
    \/ Again

SpecReuse == InitReuse /\ [][NextReuse]_vars

----------------------------------------------------------------------------
(* The queries of a StructuralIndex: a record is built and the caller asks *)
(* the index for positions, fields and values of windows of the record.    *)
(* Every query is followed from an index that has not been queried: no     *)
(* query changes the index.                                                *)

\* {"a":{"b":a},"b":a}
\* a record of two chunks with a quote on bit 63 of the first chunk and a
\* colon on bit 0 of the second:  { 60 spaces "a":a,"b":a}
\* {{ <tab>a ,,<cr><lf>}}     [ <tab>a<lf>]     one space     the empty record
\* {"e":<U+3000>a}  with U+00E9 for the e, a record with characters of two
\* and three bytes
IndexRecords ==
    {<<LeftBrace, Quote, LetterA, Quote, Colon,
       LeftBrace, Quote, LetterB, Quote, Colon, LetterA, RightBrace, Comma,
       Quote, LetterB, Quote, Colon, LetterA, RightBrace>>,
     <<LeftBrace>> \o Repeat(Space, ChunkBits - 4)
         \o <<Quote, LetterA, Quote, Colon, LetterA, Comma,
              Quote, LetterB, Quote, Colon, LetterA, RightBrace>>,
     <<LeftBrace, LeftBrace, Space, Tab, LetterA, Space, Comma, Comma,
       CarriageReturn, LineFeed, RightBrace, RightBrace>>,
     <<LeftBracket, Space, Tab, LetterA, LineFeed, RightBracket>>,
     <<LeftBrace, Quote, 195, 169, Quote, Colon, 227, 128, 128, LetterA, RightBrace>>,
     <<Space>>,
     <<>>}

\* the window bounds tried on a record: every position near its start, and
\* the positions around its chunk boundaries and its end
Cuts(s) ==
    {p \in 0 .. Len(s) :
        \/ p <= 12
        \/ p >= Len(s) - 2
        \/ p % ChunkBits \in {0, 1, 2, ChunkBits - 1}}

\* the windows <<begin, end>> of at least n bytes between two cuts
Windows(s, n) == {w \in Cuts(s) \X Cuts(s) : w[1] + n <= w[2]}

\* the StructuralIndex that build has returned
TheIndex ==
    [record |-> record, bitmaps |-> bitmaps, b_colon |-> b_colon, b_comma |-> b_comma]

InitIndex ==
    /\ backend = "sse2"
    /\ level \in 1 .. MaxLevel
    /\ record = <<>>
    /\ bitmaps = <<>>
    /\ b_colon = [l \in 1 .. level |-> <<>>]
    /\ b_comma = [l \in 1 .. level |-> <<>>]
    /\ raw = <<>>
    /\ stack = <<>>
    /\ pc = "new"
    /\ tree = QueryTreeDefault
    /\ results = <<>>
    /\ doc = NoDoc
    /\ inner_borrow = 0
    /\ before = <<>>
    /\ query = NoQuery
    /\ pattern_trees = <<>>
    /\ save_patterns = FALSE
    /\ allow_fallback = TRUE
    /\ appended = <<>>
    /\ overflow_checks \in BOOLEAN

ColonPositions(begin, end, lv) ==
    /\ pc = "Ok"
    /\ query = NoQuery
    /\ query' = [op |-> "colon_positions", args |-> <<begin, end, lv>>,
                 ret |-> colon_positions(TheIndex, begin, end, lv)]
    /\ pc' = IF query'.ret.panic THEN "panic" ELSE pc
    /\ UNCHANGED <<backend, level, record, bitmaps, b_colon, b_comma, raw, stack,
                   tree, results, doc, inner_borrow, before,
                   pattern_trees, save_patterns, allow_fallback, appended, overflow_checks>>

CommaPositions(begin, end, lv) ==
    /\ pc = "Ok"
    /\ query = NoQuery
    /\ query' = [op |-> "comma_positions", args |-> <<begin, end, lv>>,
                 ret |-> comma_positions(TheIndex, begin, end, lv)]
    /\ pc' = IF query'.ret.panic THEN "panic" ELSE pc
    /\ UNCHANGED <<backend, level, record, bitmaps, b_colon, b_comma, raw, stack,
                   tree, results, doc, inner_borrow, before,
                   pattern_trees, save_patterns, allow_fallback, appended, overflow_checks>>

FindObjectField(begin, end) ==
    /\ pc = "Ok"
    /\ query = NoQuery
    /\ query' = [op |-> "find_object_field", args |-> <<begin, end>>,
                 ret |-> find_object_field(TheIndex, begin, end)]
    /\ pc' = IF query'.ret.err = "panic" THEN "panic" ELSE pc
    /\ UNCHANGED <<backend, level, record, bitmaps, b_colon, b_comma, raw, stack,
                   tree, results, doc, inner_borrow, before,
                   pattern_trees, save_patterns, allow_fallback, appended, overflow_checks>>

FindObjectValue(begin, end, is_last_field) ==
    /\ pc = "Ok"
    /\ query = NoQuery
    /\ query' = [op |-> "find_object_value", args |-> <<begin, end, is_last_field>>,
                 ret |-> find_object_value(TheIndex, begin, end, is_last_field)]
    /\ UNCHANGED <<backend, level, record, bitmaps, b_colon, b_comma, raw, stack, pc,
                   tree, results, doc, inner_borrow, before,
                   pattern_trees, save_patterns, allow_fallback, appended, overflow_checks>>

FindArrayValue(begin, end) ==
    /\ pc = "Ok"
    /\ query = NoQuery
    /\ query' = [op |-> "find_array_value", args |-> <<begin, end>>,
                 ret |-> find_array_value(TheIndex, begin, end)]
    /\ pc' = IF query'.ret.panic THEN "panic" ELSE pc
    /\ UNCHANGED <<backend, level, record, bitmaps, b_colon, b_comma, raw, stack,
                   tree, results, doc, inner_borrow, before,
                   pattern_trees, save_patterns, allow_fallback, appended, overflow_checks>>

Substr(begin, end) ==
    /\ pc = "Ok"
    /\ query = NoQuery
    /\ query' = [op |-> "substr", args |-> <<begin, end>>,
                 ret |-> substr(TheIndex, begin, end)]
    /\ pc' = IF query'.ret.panic THEN "panic" ELSE pc
    /\ UNCHANGED <<backend, level, record, bitmaps, b_colon, b_comma, raw, stack,
                   tree, results, doc, inner_borrow, before,
                   pattern_trees, save_patterns, allow_fallback, appended, overflow_checks>>

NextIndex ==
    \/ \E r \in IndexRecords : Build(r)
    \/ Step1
    \/ Step2
    \/ Step3
    \/ Step4
    \/ \E w \in Windows(record, 0), lv \in 0 .. MaxLevel : ColonPositions(w[1], w[2], lv)
    \/ \E w \in Windows(record, 0), lv \in 0 .. MaxLevel : CommaPositions(w[1], w[2], lv)
    \/ \E w \in Windows(record, 0) : FindObjectField(w[1], w[2])
    \/ \E w \in Windows(record, 0), is_last_field \in BOOLEAN :
          FindObjectValue(w[1], w[2], is_last_field)
    \/ \E w \in Windows(record, 0) : FindArrayValue(w[1], w[2])
    \/ \E begin \in Cuts(record), end \in Cuts(record) : Substr(begin, end)

SpecIndex == InitIndex /\ [][NextIndex]_vars

----------------------------------------------------------------------------
(* Builders of level 2 and more, on records that nest scopes up to three   *)
(* deep, closed or left open.                                              *)

\* every record of at most MaxDeepLen braces and colons, and the longest
\* but one of them with commas for colons after a brace and 62 commas, which
\* moves their end into a second chunk
DeepRecords ==
    LET short == SeqsUpTo({LeftBrace, RightBrace, Colon}, MaxDeepLen)
    IN  short \cup {<<LeftBrace>> \o Repeat(Comma, ChunkBits - 2)
                       \o [i \in DOMAIN s |-> IF s[i] = Colon THEN Comma ELSE s[i]] :
                       s \in {x \in short : Len(x) = MaxDeepLen - 1}}

InitLevels ==
    /\ backend = "sse2"
    /\ level \in 2 .. MaxDepth
    /\ record = <<>>
    /\ bitmaps = <<>>
    /\ b_colon = [l \in 1 .. level |-> <<>>]
    /\ b_comma = [l \in 1 .. level |-> <<>>]
    /\ raw = <<>>
    /\ stack = <<>>
    /\ pc = "new"
    /\ tree = QueryTreeDefault
    /\ results = <<>>
    /\ doc = NoDoc
    /\ inner_borrow = 0
    /\ before = <<>>
    /\ query = NoQuery
    /\ pattern_trees = <<>>
    /\ save_patterns = FALSE
    /\ allow_fallback = TRUE
    /\ appended = <<>>
    /\ overflow_checks \in BOOLEAN

NextLevels ==
    \/ \E r \in DeepRecords : Build(r)
    \/ Step1
    \/ Step2
    \/ Step3
    \/ Step4

SpecLevels == InitLevels /\ [][NextLevels]_vars

----------------------------------------------------------------------------
(* One QueryParser parses several records, in Basic and in Speculative     *)
(* mode, with save_patterns and allow_fallback set as the caller likes.    *)

\* "$.a"  "$.a.b"
SpeculativePaths ==
    {<<Dollar, Dot, LetterA>>, <<Dollar, Dot, LetterA, Dot, LetterB>>}

\* {"a":a}   {"b":a,"a":a}   {"a":{"b":a}}   {"a":{"a":a,"b":a}}
SpeculativeRecords ==
    {<<LeftBrace, Quote, LetterA, Quote, Colon, LetterA, RightBrace>>,
     <<LeftBrace, Quote, LetterB, Quote, Colon, LetterA, Comma,
       Quote, LetterA, Quote, Colon, LetterA, RightBrace>>,
     <<LeftBrace, Quote, LetterA, Quote, Colon,
       LeftBrace, Quote, LetterB, Quote, Colon, LetterA, RightBrace, RightBrace>>,
     <<LeftBrace, Quote, LetterA, Quote, Colon,
       LeftBrace, Quote, LetterA, Quote, Colon, LetterA, Comma,
       Quote, LetterB, Quote, Colon, LetterA, RightBrace, RightBrace>>}

\* no PatternTree has taken MaxAppends patterns
Trainable == \A c \in DOMAIN pattern_trees : pattern_trees[c].nodes[<<>>].weight < MaxAppends

SavePatterns(v) ==
    /\ pc = "ready"
    /\ v => Trainable
    /\ save_patterns' = v
    /\ UNCHANGED <<backend, level, record, bitmaps, b_colon, b_comma, raw, stack, pc,
                   tree, results, doc, inner_borrow, before, query, pattern_trees,
                   allow_fallback, appended, overflow_checks>>

AllowFallback(v) ==
    /\ pc = "ready"
    /\ allow_fallback' = v
    /\ UNCHANGED <<backend, level, record, bitmaps, b_colon, b_comma, raw, stack, pc,
                   tree, results, doc, inner_borrow, before, query, pattern_trees,
                   save_patterns, appended, overflow_checks>>

\* parse after parse_speculative has returned r: parse_basic on the same
\* result vector when r is Ok(false) and allow_fallback is set
Speculation(r) ==
    /\ query' = [op |-> "parse_speculative", args |-> <<>>,
                 ret |-> [err |-> r.err, ok |-> r.ok, complete |-> r.complete,
                          oob |-> r.oob, tried |-> r.tried]]
    /\ IF r.err = "" /\ ~r.ok /\ allow_fallback
       THEN ParseReturns(parse_basic(tree, [record |-> record, bitmaps |-> bitmaps,
                                            b_colon |-> b_colon, b_comma |-> b_comma],
                                     0, Len(record), <<>>, r.res, {}),
                         "Parsed")
       ELSE ParseReturns([err |-> r.err, res |-> r.res, saved |-> <<>>],
                         IF r.ok THEN "Parsed" ELSE "FailedSpeculativeParse")

\* parse in Speculative mode after build has returned Ok
ParseSpeculative ==
    /\ pc = "Ok"
    /\ Speculation(parse_speculative(tree, pattern_trees,
                                     [record |-> record, bitmaps |-> bitmaps,
                                      b_colon |-> b_colon, b_comma |-> b_comma],
                                     0, Len(record), <<>>,
                                     [i \in 1 .. num_paths(tree) |-> <<>>], {}))
    /\ inner_borrow' = 0
    /\ UNCHANGED <<backend, level, record, bitmaps, b_colon, b_comma, raw, stack,
                   tree, doc, before, save_patterns, allow_fallback, overflow_checks>>

\* parse has returned: the caller drops the record and the results, and
\* goes on to the next record with the same parser
ParseNext ==
    /\ pc \in {"Parsed", "ParseInvalidRecord", "FailedSpeculativeParse", "InvalidRecord"}
    /\ pc' = "ready"
    /\ record' = <<>>
    /\ results' = <<>>
    /\ raw' = <<>>
    /\ stack' = <<>>
    /\ query' = NoQuery
    /\ UNCHANGED <<backend, level, bitmaps, b_colon, b_comma, tree, doc, inner_borrow,
                   before, pattern_trees, save_patterns, allow_fallback, appended,
                   overflow_checks>>

\* parse of the next record; a parser that saves patterns is given records
\* as long as its pattern trees are Trainable
ParseRecord(input) ==
    /\ save_patterns => Trainable
    /\ Parse(input, NoDoc)

NextSpeculative ==
    \/ \E path \in SpeculativePaths : AddPath(path)
    \/ NewParser(max_level(tree))
    \/ \E v \in BOOLEAN : SavePatterns(v)
    \/ \E v \in BOOLEAN : AllowFallback(v)
    \/ \E input \in SpeculativeRecords : ParseRecord(input)
    \/ Step1
    \/ Step2
    \/ Step3
    \/ Step4
    \/ ParseBasic
    \/ ParseSpeculative
    \/ ParseNext

SpecSpeculative == InitParse /\ [][NextSpeculative]_vars

----------------------------------------------------------------------------
(* A caller that only fills one PatternTree: append is called with any     *)
(* patterns, as tests::test_pattern_tree does.                             *)

\* the patterns of at most MaxPatternLen pairs of a field "a" or "b" and a
\* position 0 or 1
Patterns == SeqsUpTo({<<LetterA>>, <<LetterB>>} \X {0, 1}, MaxPatternLen)

InitPattern ==
    /\ backend = "sse2"
    /\ level = 0
    /\ record = <<>>
    /\ bitmaps = <<>>
    /\ b_colon = <<>>
    /\ b_comma = <<>>
    /\ raw = <<>>
    /\ stack = <<>>
    /\ pc = "pattern_tree"
    /\ tree = QueryTreeDefault
    /\ results = <<>>
    /\ doc = NoDoc
    /\ inner_borrow = 0
    /\ before = <<>>
    /\ query = NoQuery
    /\ pattern_trees = <<PatternTreeDefault>>
    /\ save_patterns = FALSE
    /\ allow_fallback = TRUE
    /\ appended = << <<>> >>
    /\ overflow_checks \in BOOLEAN

AppendPattern(pattern) ==
    /\ pc = "pattern_tree"
    /\ Len(appended[1]) < MaxAppends
    /\ pattern_trees' = [pattern_trees EXCEPT ![1] = append(@, pattern)]
    /\ appended' = [appended EXCEPT ![1] = Append(@, pattern)]
    /\ UNCHANGED <<backend, level, record, bitmaps, b_colon, b_comma, raw, stack, pc,
                   tree, results, doc, inner_borrow, before, query, save_patterns,
                   allow_fallback, overflow_checks>>

NextPattern == \E pattern \in Patterns : AppendPattern(pattern)

SpecPattern == InitPattern /\ [][NextPattern]_vars

----------------------------------------------------------------------------
(* A caller that only builds a QueryTree: add_path is called with well-    *)
(* formed and with malformed paths, and the tree is never handed to a      *)
(* parser.                                                                 *)

\* the paths of tests::invalid_query, ""  "$"  "$..", and  "$."  "$..x"
\* "$.a."  "$.a..b"  "$a"  "a.b"  ".a"  "$.b.a"
MorePaths ==
    {<<>>, <<Dollar>>, <<Dollar, Dot, Dot>>,
     <<Dollar, Dot>>, <<Dollar, Dot, Dot, 120>>,
     <<Dollar, Dot, LetterA, Dot>>, <<Dollar, Dot, LetterA, Dot, Dot, LetterB>>,
     <<Dollar, LetterA>>, <<LetterA, Dot, LetterB>>, <<Dot, LetterA>>,
     <<Dollar, Dot, LetterB, Dot, LetterA>>}

NextQuery == \E path \in QueryPaths \cup MorePaths : AddPath(path)

SpecQuery == InitParse /\ [][NextQuery]_vars

----------------------------------------------------------------------------
(* What the record says, read byte by byte (the reference the bitmaps are  *)
(* compared with)                                                          *)

Positions(s) == 0 .. (Len(s) - 1)

FieldByte ==
    [backslash |-> Backslash, quote |-> Quote, colon |-> Colon, comma |-> Comma,
     left_brace |-> LeftBrace, right_brace |-> RightBrace,
     left_bracket |-> LeftBracket, right_bracket |-> RightBracket]

MaskedFields == {"colon", "comma", "left_brace", "right_brace", "left_bracket", "right_bracket"}

\* the positions of chunk w that hold the byte c, as a u64
ChunkPositions(s, w, c) ==
    {k \in Word : ChunkBits * w + k < Len(s) /\ At(s, ChunkBits * w + k) = c}

\* the length of the maximal run of backslashes that ends at p - 1
BackslashRun(s, p) ==
    LET others == {q \in 0 .. (p - 1) : At(s, q) # Backslash}
    IN  IF others = {} THEN p
        ELSE p - 1 - (CHOOSE q \in others : \A r \in others : r <= q)

StructuralQuotes(s) ==
    {p \in Positions(s) : At(s, p) = Quote /\ BackslashRun(s, p) % 2 = 0}

\* p lies after an opening structural quote, up to and including its closing quote
InStringOf(sq, p) == Cardinality({q \in sq : q < p}) % 2 = 1

\* the positions of the braces and brackets outside string literals
Delimiters(s) ==
    LET sq == StructuralQuotes(s)
    IN  {p \in Positions(s) :
            /\ At(s, p) \in {LeftBrace, RightBrace, LeftBracket, RightBracket}
            /\ ~InStringOf(sq, p)}

\* reading the delimiters from position `from` on with the open ones in `open`:
\* the matched pairs, the delimiters left open, and what went wrong
RECURSIVE ScanDelimiters(_, _, _, _, _)
ScanDelimiters(s, ds, from, open, pairs) ==
    LET rest == {d \in ds : d >= from}
    IN  IF rest = {} THEN [pairs |-> pairs, open |-> open, err |-> "", at |-> Len(s)]
        ELSE LET d == CHOOSE x \in rest : \A y \in rest : x <= y
                 c == At(s, d)
             IN  IF c \in {LeftBrace, LeftBracket}
                 THEN ScanDelimiters(s, ds, d + 1, Append(open, d), pairs)
                 ELSE IF open = <<>>
                 THEN [pairs |-> pairs, open |-> open, err |-> "underflow", at |-> d]
                 ELSE LET o == open[Len(open)]
                          same == (At(s, o) = LeftBrace) <=> (c = RightBrace)
                      IN  IF ~same
                          THEN [pairs |-> pairs, open |-> open, err |-> "mismatch", at |-> d]
                          ELSE ScanDelimiters(s, ds, d + 1, SubSeq(open, 1, Len(open) - 1),
                                              pairs \cup {<<o, d, Len(open) - 1>>})

\* pairs holds <<opener, closer, number of delimiters open around the opener>>
Scan(s) == ScanDelimiters(s, Delimiters(s), 0, <<>>, {})

\* the number of delimiters open at p, closed later or not
OpenAt(sc, p) ==
    Cardinality({m \in sc.pairs : m[1] < p /\ p < m[2]})
    + Cardinality({i \in DOMAIN sc.open : sc.open[i] < p})

\* the positions whose bit is set in a leveled bitmap (one Vec<u64>)
SetPositions(bm) == UNION {{ChunkBits * (w - 1) + k : k \in bm[w]} : w \in DOMAIN bm}

AfterPass1 == pc \notin {"new", "step1"}
AfterPass2 == pc \notin {"new", "step1", "step2"}
AfterPass3 == pc \notin {"new", "step1", "step2", "step3"}

----------------------------------------------------------------------------
(* C1, C2: QueryParser::parse in Basic mode, against the document the      *)
(* record was written from                                                 *)

\* the member of the value v that the fields k .. Len(fields) name, as an Option
RECURSIVE Lookup(_, _, _)
Lookup(v, fields, k) ==
    IF v.kind # "object" THEN <<>>
    ELSE LET hits == {i \in DOMAIN v.members : v.members[i].name = fields[k]}
         IN  IF hits = {} THEN <<>>
             ELSE LET m == v.members[CHOOSE i \in hits : TRUE].value
                  IN  IF k = Len(fields) THEN <<m>> ELSE Lookup(m, fields, k + 1)

\* the field names of a registered path "$.f1.f2"
PathFields(path) == split(SubSeq(path, 3, Len(path)), Dot)

Found(w, path) == Lookup(w.value, PathFields(path), 1)

\* the text of the member's value as the writing w wrote it, as an Option
Expected(w, path) ==
    IF Found(w, path) = <<>> THEN <<>> ELSE <<Write(Found(w, path)[1], w.sp, 0)>>

ParseReturned == pc \in {"Parsed", "ParseInvalidRecord", "InvalidRecord", "panic"}

DistinctPaths ==
    \A i, j \in DOMAIN tree.paths : i # j => tree.paths[i] # tree.paths[j]

\* C1: on a well-formed JSON object without repeated field names, with
\* pairwise distinct registered paths and L = max_level >= 1, parse in Basic
\* mode returns Ok(v) where v[i] is the text of the value of the member that
\* path i names (white space and the following delimiter removed) and None
\* when the record has no such member.
C1_BasicParseResults ==
    (/\ ParseReturned
     /\ doc.value.kind = "object"
     /\ DistinctPaths
     /\ level = max_level(tree)
     /\ level >= 1)
    => /\ pc = "Parsed"
       /\ Len(results) = num_paths(tree)
       /\ \A i \in DOMAIN tree.paths : results[i] = Expected(doc, tree.paths[i])

\* a parse with level 2 that found the nested member "$.a.b" in a later chunk
\* of the record and did not find the other path
C1_Witness ==
    /\ pc = "Parsed"
    /\ level = 2
    /\ max_level(tree) = 2
    /\ doc.lead > 0
    /\ \E i, j \in DOMAIN tree.paths :
          /\ Len(PathFields(tree.paths[i])) = 2
          /\ results[i] # <<>>
          /\ results[i] = Expected(doc, tree.paths[i])
          /\ results[j] = <<>>

\* C2 as stated: whenever parse succeeds the result has num_paths entries,
\* entry i is the value of the path of the i-th add_path call, and it is None
\* iff that path is not found in the record, the paths distinct or not.
C2_EntryPerAddPathCall ==
    (pc = "Parsed" /\ doc.value.kind = "object")
    => /\ Len(results) = num_paths(tree)
       /\ \A i \in DOMAIN tree.paths :
             /\ (results[i] = <<>>) <=> (Found(doc, tree.paths[i]) = <<>>)
             /\ results[i] = Expected(doc, tree.paths[i])

----------------------------------------------------------------------------
(* C3: the leveled bitmaps                                                 *)

\* the byte at p is c, outside string literals, at nesting depth exactly l
\* (0 for the members of the outermost object)
AtDepthExactly(s, sq, sc, p, c, l) ==
    /\ At(s, p) = c
    /\ ~InStringOf(sq, p)
    /\ OpenAt(sc, p) - 1 = l

\* the byte at p is c, outside string literals, and no scope that has l + 1
\* delimiters open around it and is closed in the record holds p
NotInClosedScopeBelow(s, sq, sc, p, c, l) ==
    /\ At(s, p) = c
    /\ ~InStringOf(sq, p)
    /\ ~\E m \in sc.pairs : m[1] < p /\ p < m[2] /\ m[3] = l + 1

\* C3 as stated: after a successful build every bit set in B_colon[l]
\* (B_comma[l]) is a colon (comma) outside string literals whose nesting depth
\* is exactly l.
C3_OriginalExactDepth ==
    pc = "Ok" =>
        LET sq == StructuralQuotes(record)
            sc == Scan(record)
        IN  \A l \in 0 .. (level - 1) :
                /\ \A p \in SetPositions(b_colon[l + 1]) :
                      AtDepthExactly(record, sq, sc, p, Colon, l)
                /\ \A p \in SetPositions(b_comma[l + 1]) :
                      AtDepthExactly(record, sq, sc, p, Comma, l)

\* C3 amended: after a successful build every bit set in B_colon[l]
\* (B_comma[l]) is a colon (comma) outside string literals that lies inside
\* no pair of matching delimiters whose opener has l + 1 delimiters open
\* around it: its nesting depth is at most l (not exactly l), or more than l
\* where the delimiter opening depth l + 1 around it is never closed.
C3_LeveledBitsAtMostDepth ==
    pc = "Ok" =>
        LET sq == StructuralQuotes(record)
            sc == Scan(record)
        IN  \A l \in 0 .. (level - 1) :
                /\ \A p \in SetPositions(b_colon[l + 1]) :
                      NotInClosedScopeBelow(record, sq, sc, p, Colon, l)
                /\ \A p \in SetPositions(b_comma[l + 1]) :
                      NotInClosedScopeBelow(record, sq, sc, p, Comma, l)

\* a successful build in which level 0 lost the colon of a nested scope that
\* level 1 keeps, the scope being closed in a later chunk than it was opened
C3_Witness ==
    /\ pc = "Ok"
    /\ level = 2
    /\ \E p \in SetPositions(b_colon[2]) \ SetPositions(b_colon[1]) :
          /\ p >= ChunkBits
          /\ \E m \in Scan(record).pairs :
                m[1] < ChunkBits /\ m[1] < p /\ p < m[2] /\ m[3] = 1

----------------------------------------------------------------------------
(* C4: pass 2                                                              *)

\* C4: after pass 2 the quote bit of p is set iff byte p is a quote preceded
\* by a backslash run of even length, whatever chunks the run crosses.
C4_StructuralQuotes ==
    AfterPass2 =>
        LET sq == StructuralQuotes(record)
        IN  \A w \in DOMAIN bitmaps :
                bitmaps[w].quote = {k \in Word : ChunkBits * (w - 1) + k \in sq}

\* pass 2 has cleared a quote that follows an odd run of backslashes longer
\* than a chunk
C4_Witness ==
    /\ pc = "step3"
    /\ \E p \in Positions(record) :
          /\ At(record, p) = Quote
          /\ BackslashRun(record, p) > ChunkBits
          /\ BackslashRun(record, p) % 2 = 1
          /\ (p % ChunkBits) \in raw[(p \div ChunkBits) + 1].quote
          /\ (p % ChunkBits) \notin bitmaps[(p \div ChunkBits) + 1].quote

----------------------------------------------------------------------------
(* C5: pass 3                                                              *)

\* C5: after pass 3, for a record with an even number of structural quotes,
\* each of the six masked fields has lost exactly its bits inside string
\* literals and kept its pass-1 bits outside them.
C5_StringMasking ==
    AfterPass3 =>
        LET sq == StructuralQuotes(record)
        IN  Cardinality(sq) % 2 = 0 =>
                \A w \in DOMAIN bitmaps : \A f \in MaskedFields :
                    bitmaps[w][f] =
                        {k \in raw[w][f] : ~InStringOf(sq, ChunkBits * (w - 1) + k)}

\* pass 3 has cleared a colon of a later chunk inside a string opened in the
\* first chunk, and kept a structural byte after the closing quote
C5_Witness ==
    /\ pc = "step4"
    /\ LET sq == StructuralQuotes(record)
       IN  /\ Cardinality(sq) = 2
           /\ \E q1 \in sq, q2 \in sq :
                 /\ q1 < ChunkBits /\ ChunkBits < q2
                 /\ \E p \in (q1 + 1) .. (q2 - 1) :
                       /\ p >= ChunkBits
                       /\ (p % ChunkBits) \in raw[(p \div ChunkBits) + 1].colon
                       /\ (p % ChunkBits) \notin bitmaps[(p \div ChunkBits) + 1].colon

----------------------------------------------------------------------------
(* C6: pass 1                                                              *)

\* C6: after pass 1 there are ceil(|s| / 64) bitmaps and bit k of field c of
\* bitmap w is set iff 64w + k < |s| and s[64w + k] = c, for every backend.
C6_RawBitmaps ==
    AfterPass1 =>
        /\ Len(raw) = (Len(record) + ChunkBits - 1) \div ChunkBits
        /\ \A w \in DOMAIN raw : \A f \in DOMAIN FieldByte :
              raw[w][f] = ChunkPositions(record, w - 1, FieldByte[f])

\* the SSE2 backend has built a partial bitmap of three lanes with a
\* structural byte in the last of them
C6_Witness ==
    /\ pc = "step2"
    /\ backend = "sse2"
    /\ Len(record) % ChunkBits > 32
    /\ Len(record) % ChunkBits < 48
    /\ \E f \in DOMAIN FieldByte : \E k \in raw[Len(raw)][f] : k >= 32

----------------------------------------------------------------------------
(* C7: the passes only clear bits                                          *)

SubsetOfEach(a, b, f) == \A w \in DOMAIN a : a[w][f] \subseteq b[w][f]

\* C7: after a successful build every leveled bitmap is a subset of the final
\* colon (comma) bitmap, every final field is a subset of its pass-1 value,
\* and the backslash field is unchanged.
C7_OnlyCleared ==
    pc = "Ok" =>
        /\ \A l \in 1 .. level :
              /\ Len(b_colon[l]) = Len(bitmaps)
              /\ Len(b_comma[l]) = Len(bitmaps)
              /\ \A w \in DOMAIN bitmaps :
                    /\ b_colon[l][w] \subseteq bitmaps[w].colon
                    /\ b_comma[l][w] \subseteq bitmaps[w].comma
        /\ Len(bitmaps) = Len(raw)
        /\ \A f \in DOMAIN FieldByte : SubsetOfEach(bitmaps, raw, f)
        /\ \A w \in DOMAIN bitmaps : bitmaps[w].backslash = raw[w].backslash

\* a successful build in which pass 2 cleared a quote, pass 3 a colon and
\* pass 4 a bit of a leveled bitmap
C7_Witness ==
    /\ pc = "Ok"
    /\ level >= 1
    /\ \E w \in DOMAIN bitmaps : b_comma[1][w] # bitmaps[w].comma
    /\ \E w \in DOMAIN bitmaps : bitmaps[w].quote # raw[w].quote
    /\ \E w \in DOMAIN bitmaps : bitmaps[w].colon # raw[w].colon

----------------------------------------------------------------------------
(* C8, C9: the errors of pass 4                                            *)

\* C8: when pass 4 returns Ok, no closing delimiter of the record was met
\* with nothing open and none closed an opener of the other kind.
C8_UnderflowAndMismatchRejected ==
    pc = "Ok" => Scan(record).err = ""

\* pass 4 has rejected a closer of the wrong kind that lies in a later chunk
\* than its opener
C8_Witness ==
    /\ pc = "InvalidRecord"
    /\ LET sc == Scan(record)
       IN  /\ sc.err = "mismatch"
           /\ sc.at >= ChunkBits
           /\ sc.open[Len(sc.open)] < ChunkBits

\* C9 as stated: build returns Ok only if no opening delimiter is left open
\* at the end of the record.
C9_LeftoverOpensRejected ==
    pc = "Ok" => (Scan(record).open = <<>> /\ stack = <<>>)

----------------------------------------------------------------------------
(* C10: build never panics                                                 *)

\* C10 as stated: build ends with a StructuralIndex or InvalidRecord and
\* fails no assertion, the pass-3 check that n is even included.
C10_NeverPanics == pc # "panic"

----------------------------------------------------------------------------
(* C11: a reused builder builds what a fresh builder builds                *)

\* what IndexBuilder::new(b, lv).build(r) leaves in the buffers of a builder
\* that has built nothing before
FreshBuild(r, b, lv) ==
    LET p1 == build_structural_character_bitmaps(r, b)
        p2 == remove_unstructural_quotes(p1)
        p3 == remove_unstructural_characters(p2)
        empty == [l \in 1 .. lv |-> <<>>]
        p4 == build_leveled_bitmaps(p3.bitmaps, empty, empty, lv)
    IN  [bitmaps |-> p3.bitmaps, b_colon |-> p4.b_colon, b_comma |-> p4.b_comma,
         ok |-> p4.err = ""]

\* C11: whatever the builder has built before, and however those calls
\* ended, a build call that returns leaves in bitmaps, B_colon and B_comma
\* exactly what a fresh builder of the same level leaves for its record,
\* and returns what the fresh builder returns.
C11_FreshBuffers ==
    pc \in {"Ok", "InvalidRecord"}
    => LET f == FreshBuild(record, backend, level)
       IN  /\ bitmaps = f.bitmaps
           /\ b_colon = f.b_colon
           /\ b_comma = f.b_comma
           /\ (pc = "Ok") = f.ok

\* a record of one chunk with colons has been built after a record of two
\* chunks that pass 4 rejected, and after a record that was built
C11_Witness ==
    /\ pc = "Ok"
    /\ Len(before) = 2
    /\ before[1].ok
    /\ ~before[2].ok
    /\ Len(before[2].record) > ChunkBits
    /\ Len(record) < ChunkBits
    /\ Len(bitmaps) = 1
    /\ \A l \in DOMAIN b_colon : Len(b_colon[l]) = 1 /\ b_colon[l][1] # {}

----------------------------------------------------------------------------
(* C12: the buffers are not touched while a StructuralIndex is alive       *)

\* C12: at most one StructuralIndex of a builder is alive at any time; no
\* step changes bitmaps, B_colon or B_comma while one is alive, and none is
\* alive while build is between its passes; a build call made while one is
\* alive ends in the BorrowMutError panic.
C12_ExclusiveBorrow ==
    /\ [](inner_borrow <= 1)
    /\ [](inner_borrow > 0 => pc \in {"Ok", "new", "BorrowMutError"})
    /\ [][inner_borrow > 0 => UNCHANGED <<bitmaps, b_colon, b_comma, overflow_checks>>]_vars
    /\ [][(pc = "new" /\ inner_borrow > 0 /\ pc' # "new")
            => pc' = "BorrowMutError"]_vars

\* build was called for a second record while the index of the first was
\* alive, and panicked with the buffers of the first record in place
C12_Witness ==
    /\ pc = "BorrowMutError"
    /\ inner_borrow = 1
    /\ Len(before) >= 1
    /\ bitmaps # <<>>
    /\ bitmaps = FreshBuild(record, backend, level).bitmaps

----------------------------------------------------------------------------
(* C13: parse never panics                                                 *)

\* C13 as stated: with the builder level equal to max_level, parse in Basic
\* mode ends with a result vector or with InvalidRecord, whatever the input:
\* it does not panic (a substr with vs > ve or ve > |record|, an index out
\* of range).
C13_ParseNeverPanics ==
    [][(pc = "Ok" /\ level = max_level(tree)) => pc' # "panic"]_vars

----------------------------------------------------------------------------
(* C14: a registered field with an empty value                             *)

\* C14 as stated: parse does not return a result vector that holds an empty
\* slice for a path; a field that is present with no value text makes parse
\* return InvalidRecord.
C14_EmptyValueRejected ==
    pc = "Parsed" => \A i \in DOMAIN results : results[i] # << <<>> >>

----------------------------------------------------------------------------
(* C15: colon_positions and comma_positions                                *)

\* the elements of a set of numbers in ascending order
RECURSIVE Ascending(_)
Ascending(ps) ==
    IF ps = {} THEN <<>>
    ELSE LET m == CHOOSE x \in ps : \A y \in ps : x <= y
         IN  <<m>> \o Ascending(ps \ {m})

\* C15 as stated: for level < L and 0 <= begin < end <= |record| the buffer
\* holds exactly the positions of [begin, end) whose bit is set in
\* B_colon[level] (B_comma[level]), each once, in ascending order.
C15_ExactPositions ==
    (/\ query.op \in {"colon_positions", "comma_positions"}
     /\ query.args[3] < level
     /\ query.args[1] < query.args[2])
    => LET bm == IF query.op = "colon_positions" THEN b_colon[query.args[3] + 1]
                 ELSE b_comma[query.args[3] + 1]
           window == query.args[1] .. (query.args[2] - 1)
       IN  /\ query.ret.ok
           /\ query.ret.cp = Ascending(SetPositions(bm) \cap window)

----------------------------------------------------------------------------
(* C16: a level the index was not built for                                *)

\* the evaluator calls colon_positions for a node whose level the index does
\* not have: the root with a builder of level 0, or a node with children whose
\* field the record has, under objects all the way up
VisitsMissingLevel ==
    \E n \in DOMAIN tree.nodes :
        /\ node_level(tree, n) = level
        /\ \/ n = <<>>
           \/ ~is_leaf(tree, n) /\ Lookup(doc.value, n, 1) # <<>>

\* C16: on a built index colon_positions and comma_positions called with a
\* level >= L return false with the buffer left empty, and read no bitmap:
\* the bitmaps are read by generate_positions only, which with end = 0 and
\* overflow checks ends in a panic, so the result without a panic for
\* end = 0 shows that it was not called. A parse of a well-formed object
\* whose evaluation visits a query node of such a level returns
\* InvalidRecord, whatever it had stored before; with a builder of level 0
\* the root is such a node, and no record at all, well-formed or not, is
\* parsed to a result vector.
C16_MissingLevelRejected ==
    /\ pc = "Ok"
       => LET index == [record |-> record, bitmaps |-> bitmaps,
                        b_colon |-> b_colon, b_comma |-> b_comma]
          IN  \A lv \in level .. MaxLevel + 1 :
                 \A begin \in {0, 1}, end \in {0, 1, Len(record)} :
                    /\ colon_positions(index, begin, end, lv)
                          = [ok |-> FALSE, cp |-> <<>>, panic |-> FALSE]
                    /\ comma_positions(index, begin, end, lv)
                          = [ok |-> FALSE, cp |-> <<>>, panic |-> FALSE]
    /\ (ParseReturned /\ doc.value.kind = "object" /\ VisitsMissingLevel)
       => pc = "ParseInvalidRecord"
    /\ level = 0 => pc # "Parsed"

\* a parser of level 1 has returned InvalidRecord for a record in which the
\* path "$.a.b" leads into a nested object, after it had filled the entry
\* of another path
C16_Witness ==
    /\ pc = "ParseInvalidRecord"
    /\ level = 1
    /\ doc.value.kind = "object"
    /\ \E n \in DOMAIN tree.nodes :
          /\ Len(n) = 1
          /\ ~is_leaf(tree, n)
          /\ Lookup(doc.value, n, 1) # <<>>
          /\ Lookup(doc.value, n, 1)[1].kind = "object"
    /\ \E i \in DOMAIN results : results[i] # <<>>

----------------------------------------------------------------------------
(* C17: find_object_field                                                  *)

\* C17 as stated: with fewer than two structural quotes in [begin, end) the
\* call returns InvalidRecord; otherwise it returns the text between the two
\* highest structural quotes q1 < q2 below end, and q1 + 1.
C17_FieldOfWindow ==
    query.op = "find_object_field"
    => LET begin == query.args[1]
           end == query.args[2]
           qs == {q \in StructuralQuotes(record) : begin <= q /\ q < end}
       IN  IF Cardinality(qs) < 2
           THEN query.ret.err = "InvalidRecord"
           ELSE LET q2 == CHOOSE q \in qs : \A r \in qs : r <= q
                    q1 == CHOOSE q \in qs \ {q2} : \A r \in qs \ {q2} : r <= q
                IN  query.ret = [err |-> "", field |-> SubSeq(record, q1 + 2, q2),
                                 si |-> q1 + 1]

----------------------------------------------------------------------------
(* C18: find_object_value                                                  *)

\* C18: find_object_value returns (vb, ve) with begin <= vb <= ve <= end;
\* s[begin..vb) is white space; s[ve..end) is white space and at most one
\* delimiter; s[vb..ve) is empty or starts and ends with a byte that is not
\* white space; and when the value ends with the delimiter, one delimiter
\* was removed after it (the second one from the end is kept).
C18_ValueTrimmed ==
    query.op = "find_object_value"
    => LET begin == query.args[1]
           end == query.args[2]
           d == IF query.args[3] THEN RightBrace ELSE Comma
           vb == query.ret[1]
           ve == query.ret[2]
           tail == {p \in ve .. (end - 1) : At(record, p) = d}
       IN  /\ begin <= vb /\ vb <= ve /\ ve <= end
           /\ \A p \in begin .. (vb - 1) : At(record, p) \in ValueWhitespace
           /\ \A p \in ve .. (end - 1) : At(record, p) \in ValueWhitespace \cup {d}
           /\ Cardinality(tail) <= 1
           /\ vb < ve => /\ At(record, vb) \notin ValueWhitespace
                         /\ At(record, ve - 1) \notin ValueWhitespace
                         /\ At(record, ve - 1) = d => tail # {}

\* a last value that keeps its own closing brace: the brace after it was
\* removed
C18_Witness ==
    /\ query.op = "find_object_value"
    /\ query.args[3]
    /\ query.ret[1] < query.ret[2]
    /\ At(record, query.ret[2] - 1) = RightBrace
    /\ \E p \in query.ret[2] .. (query.args[2] - 1) : At(record, p) = RightBrace

----------------------------------------------------------------------------
(* C19: find_array_value                                                   *)

\* C19 as stated: find_array_value returns (vb, ve) with
\* begin <= vb <= ve <= end without reading outside the record, and
\* s[vb..ve) is s[begin..end) without its leading and trailing white space
\* (vb = ve when the window is empty or all white space).
C19_ArrayValueTrimmed ==
    query.op = "find_array_value"
    => LET begin == query.args[1]
           end == query.args[2]
           vb == query.ret.range[1]
           ve == query.ret.range[2]
           nonws == {p \in begin .. (end - 1) : At(record, p) \notin ValueWhitespace}
       IN  /\ ~query.ret.panic
           /\ begin <= vb /\ vb <= ve /\ ve <= end
           /\ IF nonws = {} THEN vb = ve
              ELSE /\ vb = CHOOSE p \in nonws : \A q \in nonws : p <= q
                   /\ ve = (CHOOSE p \in nonws : \A q \in nonws : q <= p) + 1

----------------------------------------------------------------------------
(* C20: add_path                                                           *)

\* C20: add_path(p) returns Ok exactly when p begins with "$." and what
\* follows, split on '.', has no empty segment: it is not empty, does not
\* begin or end with '.', and holds no two adjacent '.'.  In particular ""
\* "$"  "$."  "$.."  and  "$..x" are rejected.
C20_PathAccepted ==
    query.op = "add_path"
    => LET p == query.args[1]
           wellformed ==
               /\ Len(p) >= 3
               /\ p[1] = Dollar /\ p[2] = Dot
               /\ p[3] # Dot /\ p[Len(p)] # Dot
               /\ \A i \in 3 .. (Len(p) - 1) : ~(p[i] = Dot /\ p[i + 1] = Dot)
       IN  /\ query.ret[1] <=> wellformed
           /\ p \in {<<>>, <<Dollar>>, <<Dollar, Dot>>, <<Dollar, Dot, Dot>>,
                      <<Dollar, Dot, Dot, 120>>} => ~query.ret[1]

\* "$..x" is rejected by a tree that has accepted a path before
C20_Witness ==
    /\ query.op = "add_path"
    /\ query.args[1] = <<Dollar, Dot, Dot, 120>>
    /\ ~query.ret[1]
    /\ Len(tree.paths) = 1

----------------------------------------------------------------------------
(* C21: the QueryTree after any sequence of add_path calls                 *)

\* C21: max_level is the greatest level of a node that carries a path id (0
\* when there is none); the root has level 0 and every other node its
\* parent's level + 1; the ids of the nodes other than the root are exactly
\* 0 .. num_nodes - 1, each once; and num_paths grows by one with every call
\* that succeeds and with no other.
C21_TreeInvariants ==
    /\ [](LET keys == DOMAIN tree.nodes \ {<<>>}
              terminal == {node_level(tree, k) : k \in {n \in DOMAIN tree.nodes :
                                                          path_id(tree, n) # <<>>}}
          IN  /\ \A l \in terminal : l <= max_level(tree)
              /\ max_level(tree) \in terminal \cup {0}
              /\ terminal = {} => max_level(tree) = 0
              /\ node_level(tree, <<>>) = 0
              /\ \A k \in keys :
                    /\ SubSeq(k, 1, Len(k) - 1) \in DOMAIN tree.nodes
                    /\ node_level(tree, k) = node_level(tree, SubSeq(k, 1, Len(k) - 1)) + 1
              /\ {tree.nodes[k].node_id : k \in keys} = 0 .. (tree.num_nodes - 1)
              /\ Cardinality(keys) = tree.num_nodes)
    /\ [][query'.op = "add_path"
          => num_paths(tree') = num_paths(tree) + (IF query'.ret[1] THEN 1 ELSE 0)]_vars

\* two accepted paths that share their first node, the deeper one first
C21_Witness ==
    /\ query.op = "add_path"
    /\ tree.paths = <<<<Dollar, Dot, LetterA, Dot, LetterB>>, <<Dollar, Dot, LetterA>>>>
    /\ tree.num_nodes = 2

----------------------------------------------------------------------------
(* C29: an add_path call that fails                                        *)

\* C29 as stated: a call of add_path that returns InvalidQuery leaves the
\* tree as it was: its nodes, num_nodes, max_level and its paths.
C29_FailedAddPathChangesNothing ==
    [][(query'.op = "add_path" /\ pc = "tree" /\ ~query'.ret[1]) => tree' = tree]_vars

----------------------------------------------------------------------------
(* C22: a builder of level L >= max_level                                  *)

\* C22 as stated: with a builder of level L >= max_level the evaluator asks
\* for the colon positions of no level >= L, and the parse of a well-formed
\* object does not fail with InvalidRecord ("mismatched level").
C22_MaxLevelSuffices ==
    (ParseReturned /\ doc.value.kind = "object" /\ level >= max_level(tree))
    => ~VisitsMissingLevel /\ pc # "ParseInvalidRecord"

----------------------------------------------------------------------------
(* C27: pass 4 clears a scope that is closed in a later chunk              *)

\* C27: when build returns Ok, for every scope opened at p in chunk j and
\* closed at q in a later chunk w, with m >= 1 delimiters open around it and
\* m - 1 < L: the masking applied to the colon (comma) bitmap of pass 3
\* clears exactly its bits of the positions in [p, q) and changes no other
\* bit, and B_colon[m - 1] and B_comma[m - 1] hold no position of [p, q).
C27_ScopeAcrossChunks ==
    pc = "Ok" =>
        \A m \in Scan(record).pairs :
            (m[1] \div ChunkBits < m[2] \div ChunkBits /\ m[3] >= 1 /\ m[3] - 1 < level)
            => LET j == m[1] \div ChunkBits
                   w == m[2] \div ChunkBits
                   scope == m[1] .. (m[2] - 1)
                   colon == [k \in DOMAIN bitmaps |-> bitmaps[k].colon]
                   comma == [k \in DOMAIN bitmaps |-> bitmaps[k].comma]
                   m_leftbit == {m[1] % ChunkBits}
                   m_rightbit == {m[2] % ChunkBits}
               IN  /\ SetPositions(clear_scope(colon, w, j, m_leftbit, m_rightbit))
                         = SetPositions(colon) \ scope
                   /\ SetPositions(clear_scope(comma, w, j, m_leftbit, m_rightbit))
                         = SetPositions(comma) \ scope
                   /\ SetPositions(b_colon[m[3]]) \cap scope = {}
                   /\ SetPositions(b_comma[m[3]]) \cap scope = {}

\* a scope opened in the first chunk and closed in the third has been
\* cleared: colons after the opener, in the whole second chunk and before
\* the closer
C27_Witness ==
    /\ pc = "Ok"
    /\ level >= 1
    /\ Len(bitmaps) = 3
    /\ \E m \in Scan(record).pairs :
          /\ m[3] = 1
          /\ m[1] < ChunkBits
          /\ m[2] > 2 * ChunkBits
          /\ \E k \in bitmaps[1].colon : k > m[1]
          /\ bitmaps[2].colon = Word
          /\ \E k \in bitmaps[3].colon : k + 2 * ChunkBits < m[2]
          /\ b_colon[1] = <<{}, {}, {}>>

----------------------------------------------------------------------------
(* C28: a deeper level holds what a shallower level holds                  *)

\* C28 as stated: when build returns Ok with L >= 2, B_colon[l] is a subset
\* of B_colon[l + 1] and B_comma[l] of B_comma[l + 1], chunk by chunk, for
\* every l with l + 1 < L.
C28_LevelsNested ==
    (pc = "Ok" /\ level >= 2)
    => \A l \in 1 .. (level - 1) : \A w \in DOMAIN bitmaps :
          /\ b_colon[l][w] \subseteq b_colon[l + 1][w]
          /\ b_comma[l][w] \subseteq b_comma[l + 1][w]

----------------------------------------------------------------------------
(* C26: the PatternTree after any sequence of append calls                 *)

\* C26: in every PatternTree the weight of the root is the number of append
\* calls; the nodes are the prefixes of the appended patterns and the weight
\* of a node is the number of appended patterns that begin with its pairs;
\* the children of a node are pairwise different pairs, one for every node
\* below it, in the order in which they were first appended.
C26_PatternTreeInvariants ==
    \A c \in DOMAIN pattern_trees :
        LET pt == pattern_trees[c]
            hist == appended[c]
            with(k) == {i \in DOMAIN hist :
                          Len(hist[i]) >= Len(k) /\ SubSeq(hist[i], 1, Len(k)) = k}
            first(k) == CHOOSE i \in with(k) : \A j \in with(k) : i <= j
        IN  /\ pt.nodes[<<>>].weight = Len(hist)
            /\ DOMAIN pt.nodes
                  = {<<>>} \cup UNION {{SubSeq(hist[i], 1, n) : n \in 0 .. Len(hist[i])} :
                                         i \in DOMAIN hist}
            /\ \A k \in DOMAIN pt.nodes :
                  LET ch == pattern_children(pt, k)
                  IN  /\ pt.nodes[k].weight = Cardinality(with(k))
                      /\ k # <<>> => /\ pattern_field(pt, k) = k[Len(k)][1]
                                      /\ pattern_position(pt, k) = k[Len(k)][2]
                      /\ {ch[i] : i \in DOMAIN ch}
                            = {q[Len(q)] : q \in {n \in DOMAIN pt.nodes :
                                    Len(n) = Len(k) + 1 /\ SubSeq(n, 1, Len(k)) = k}}
                      /\ \A i, j \in DOMAIN ch :
                            i < j => /\ ch[i] # ch[j]
                                     /\ first(Append(k, ch[i])) < first(Append(k, ch[j]))

\* three patterns that begin with the same pair and go on with two
\* different ones, the first of them appended twice
C26_Witness ==
    /\ pc = "pattern_tree"
    /\ Len(appended[1]) = 3
    /\ LET pt == pattern_trees[1]
           k == <<<<<<LetterA>>, 0>>>>
       IN  /\ k \in DOMAIN pt.nodes
           /\ pt.nodes[k].weight = 3
           /\ Len(pattern_children(pt, k)) = 2
           /\ pt.nodes[Append(k, pattern_children(pt, k)[1])].weight = 2
           /\ appended[1][3] = Append(k, pattern_children(pt, k)[1])

----------------------------------------------------------------------------
(* C30: the positions of a stored pattern and the colons of the record     *)

\* C30 as stated: in parse_speculative every position i of a stored pattern
\* that is examined is below the number of colon positions of the current
\* range, so cp[i], cp[i - 1] and cp[i + 1] are in range, and a record with
\* fewer fields than a recorded pattern does not fault.
C30_PositionsInRange ==
    query.op = "parse_speculative" => ~query.ret.oob /\ pc # "panic"

----------------------------------------------------------------------------
(* C23: Speculative mode with fallback against Basic mode                  *)

\* what parse in Basic mode returns on the record that has been built
BasicOutcome ==
    parse_basic(tree, [record |-> record, bitmaps |-> bitmaps,
                       b_colon |-> b_colon, b_comma |-> b_comma],
                0, Len(record), <<>>, [i \in 1 .. num_paths(tree) |-> <<>>], {})

\* C23 as stated: with fallback allowed, parse in Speculative mode returns
\* what parse in Basic mode returns on the record, whatever the pattern trees
\* hold: the same result vector, or an error in both.
C23_SpeculativeAsBasic ==
    [][(pc = "Ok" /\ query'.op = "parse_speculative" /\ allow_fallback)
       => IF BasicOutcome.err = "" THEN pc' = "Parsed" /\ results' = BasicOutcome.res
          ELSE pc' \in {"ParseInvalidRecord", "panic"}]_vars

----------------------------------------------------------------------------
(* C24: when parse returns FailedSpeculativeParse                          *)

\* C24 as stated: a Speculative parse returns FailedSpeculativeParse exactly
\* when the speculative pass did not end on a non-root leaf of the pattern
\* tree at every node it visited and allow_fallback is false; with
\* allow_fallback it never returns it, and Basic mode never returns it.
C24_FailedSpeculativeParse ==
    /\ (query.op = "parse_speculative" /\ query.ret.err = "")
       => (pc = "FailedSpeculativeParse" <=> (~query.ret.complete /\ ~allow_fallback))
    /\ pc = "FailedSpeculativeParse" => query.op = "parse_speculative"

----------------------------------------------------------------------------
(* C25: the order in which the recorded alternatives are tried             *)

\* C25 as stated: a Speculative parse tries the alternatives recorded under
\* a node in order of decreasing weight: a child that is examined weighs at
\* least as much as every child after it in the order of examination.
C25_DecreasingWeight ==
    query.op = "parse_speculative"
    => \A k \in DOMAIN query.ret.tried :
          LET tn == query.ret.tried[k]
          IN  \A x \in 1 .. tn.examined : \A y \in (x + 1) .. Len(tn.offered) :
                 tn.offered[x] >= tn.offered[y]

====
